---- MODULE Spec2Model ----
(***************************************************************************)
(* Population estimation engine (src/src/utils/populationEngine.ts), its   *)
(* helpers (traitHelpers, calculations) and the selection handlers of the  *)
(* App component that drive it.                                            *)
(*                                                                         *)
(* Numbers: the engine computes in IEEE doubles.  The model computes the   *)
(* same expressions in exact rational arithmetic (a fraction n/d in lowest *)
(* terms); Math.round, Math.min, Math.max and the comparisons are modelled *)
(* on those fractions.  The relative rounding error of a double operation  *)
(* (2^-53) is not modelled.                                                *)
(***************************************************************************)
EXTENDS Integers, Sequences, FiniteSets, TLC

(***************************************************************************)
(* Bounds of the model.                                                    *)
(***************************************************************************)
\* A toggle that checks a box is taken only while fewer than MaxSelected
\* keys are selected in total.
MaxSelected == 3

\* computeDimensionProbability is called with at most MaxKeys keys, and
\* validateAcsCells with at most MaxCells cells.
MaxKeys == 3
MaxCells == 2

(***************************************************************************)
(* Exact fractions standing for the engine's numbers.                      *)
(***************************************************************************)
\* Euclid's algorithm, four remainders to a call
RECURSIVE GCD(_, _)
GCD(a, b) ==
    IF b = 0 THEN a
    ELSE IF a % b = 0 THEN b
    ELSE IF b % (a % b) = 0 THEN a % b
    ELSE IF (a % b) % (b % (a % b)) = 0 THEN b % (a % b)
    ELSE GCD((a % b) % (b % (a % b)), (b % (a % b)) % ((a % b) % (b % (a % b))))

Abs(x) == IF x < 0 THEN -x ELSE x

\* n/d with the common factor g taken out
Reduced(n, d, g) == [n |-> n \div g, d |-> d \div g]

\* the number n/d (d > 0), in lowest terms
Rat(n, d) == IF n = 0 THEN [n |-> 0, d |-> 1] ELSE Reduced(n, d, GCD(Abs(n), d))

Num(k) == [n |-> k, d |-> 1]
Zero == Num(0)
One == Num(1)

RMul(a, b) == Rat(a.n * b.n, a.d * b.d)

\* a + b over the common denominator d * (b.d / g), g the gcd of a.d and b.d
AddOver(a, b, g) == Rat(a.n * (b.d \div g) + b.n * (a.d \div g), a.d * (b.d \div g))

RAdd(a, b) == AddOver(a, b, GCD(a.d, b.d))
RSub(a, b) == RAdd(a, [n |-> -b.n, d |-> b.d])
RLeq(a, b) == a.n * b.d <= b.n * a.d
RLess(a, b) == a.n * b.d < b.n * a.d

\* a / b as the engine divides (b # 0 at every use)
RDiv(a, b) == IF b.n > 0 THEN Rat(a.n * b.d, a.d * b.n) ELSE Rat(-(a.n * b.d), -(a.d * b.n))

\* Math.min and Math.max
RMin(a, b) == IF RLeq(a, b) THEN a ELSE b
RMax(a, b) == IF RLeq(a, b) THEN b ELSE a

\* Math.round: the nearest integer, a tie going up (floor(x + 1/2))
MathRound(x) == (2 * x.n + x.d) \div (2 * x.d)

\* the sum of terms[lo..hi].  The fractions are exact, so the sum does not
\* depend on the order of the additions; it is taken by halves.
RECURSIVE RSum(_, _, _)
RSum(terms, lo, hi) ==
    IF lo > hi THEN Zero
    ELSE IF lo = hi THEN terms[lo]
    ELSE RAdd(RSum(terms, lo, (lo + hi) \div 2), RSum(terms, ((lo + hi) \div 2) + 1, hi))

\* the product of factors[lo..hi], taken by halves likewise
RECURSIVE RProduct(_, _, _)
RProduct(factors, lo, hi) ==
    IF lo > hi THEN One
    ELSE IF lo = hi THEN factors[lo]
    ELSE RMul(RProduct(factors, lo, (lo + hi) \div 2),
              RProduct(factors, ((lo + hi) \div 2) + 1, hi))

\* a to the power k, the exponent taken by halves
RECURSIVE RPow(_, _)
RPow(a, k) ==
    IF k = 0 THEN One
    ELSE IF k = 1 THEN a
    ELSE RMul(RPow(a, k \div 2), RPow(a, k - (k \div 2)))

\* const clamp = (value, min = 0, max = 1) => Math.min(max, Math.max(min, value))
clamp(value, min, max) == RMin(max, RMax(min, value))

(***************************************************************************)
(* traitHelpers: age bands, employment eligibility, diary traits.          *)
(***************************************************************************)
\* Object.keys(AGE_BAND_MIN_AGES), in the order of the literal
AgeBandOrder ==
    <<"0_14", "15_17", "18_24", "25_34", "35_44", "45_54", "55_64", "65_plus">>

AgeBandKey == {AgeBandOrder[i] : i \in DOMAIN AgeBandOrder}

AGE_BAND_MIN_AGES ==
    "0_14" :> 0 @@ "15_17" :> 15 @@ "18_24" :> 18 @@ "25_34" :> 25 @@
    "35_44" :> 35 @@ "45_54" :> 45 @@ "55_64" :> 55 @@ "65_plus" :> 65

EMPLOYMENT_ELIGIBILITY_FACTOR ==
    "0_14" :> Zero @@ "15_17" :> Rat(2, 3) @@ "18_24" :> One @@ "25_34" :> One @@
    "35_44" :> One @@ "45_54" :> One @@ "55_64" :> One @@ "65_plus" :> One

\* an eligibility that is all or nothing: 1 from 18 on, 0 below
getEmploymentEligibilityFactorAdultsOnly(ageBand) ==
    IF AGE_BAND_MIN_AGES[ageBand] >= 18 THEN One ELSE Zero

\* EMPLOYMENT_ELIGIBILITY_FACTOR[ageBand] ?? 1
getEmploymentEligibilityFactor(ageBand) ==
    IF ageBand \in DOMAIN EMPLOYMENT_ELIGIBILITY_FACTOR
    THEN EMPLOYMENT_ELIGIBILITY_FACTOR[ageBand]
    ELSE One

\* a weekly probability taken as seven times the daily one
dailyToWeeklyLinear(pDay) == RMul(Num(7), pDay)

\* the conversion without the clamps
dailyToWeeklyUnclamped(pDay) == RSub(One, RPow(RSub(One, pDay), 7))

\* p_week = 1 - (1 - p_day)^7, the input and the result clamped to [0,1]
dailyToWeekly(pDay) ==
    LET clamped == RMin(RMax(pDay, Zero), One)
        pWeek == RSub(One, RPow(RSub(One, clamped), 7))
    IN  RMin(RMax(pWeek, Zero), One)

ATUS_HOBBY_TRAIT_KEYS ==
    {"high_childcare_time", "has_pet_proxy", "plays_sports",
     "spiritual_activities", "volunteer_work"}

\* the optional manifest argument when it is not given
NoManifest == [given |-> FALSE]

\* trait.source.toUpperCase().includes('ATUS'), over the sources of the model
SourceIncludesATUS(source) == source \in {"ATUS 2023", "atus time diary"}

\* manifest.traits.find((t) => t.key === traitKey): the index of the first
\* entry with that key, 0 when there is none
FindTrait(traits, traitKey) ==
    LET hits == {i \in DOMAIN traits : traits[i].key = traitKey}
    IN  IF hits = {} THEN 0 ELSE CHOOSE i \in hits : \A j \in hits : i <= j

\* a test that consults the hard-coded list before the manifest
isAtusOrHobbyTraitListFirst(traitKey, manifest) ==
    LET i == IF "traits" \in DOMAIN manifest THEN FindTrait(manifest.traits, traitKey) ELSE 0
    IN  \/ traitKey \in ATUS_HOBBY_TRAIT_KEYS
        \/ i # 0 /\ (manifest.traits[i].group = "Hobbies"
                      \/ SourceIncludesATUS(manifest.traits[i].source))

isAtusOrHobbyTrait(traitKey, manifest) ==
    LET i == IF "traits" \in DOMAIN manifest THEN FindTrait(manifest.traits, traitKey) ELSE 0
    IN  IF i # 0
        THEN manifest.traits[i].group = "Hobbies" \/ SourceIncludesATUS(manifest.traits[i].source)
        ELSE traitKey \in ATUS_HOBBY_TRAIT_KEYS

isAgeBandEligible(band, minAge) == AGE_BAND_MIN_AGES[band] >= minAge

\* bands strictly above the minimum age
getEligibleAgeBandsAbove(minAge) ==
    SelectSeq(AgeBandOrder, LAMBDA band : AGE_BAND_MIN_AGES[band] > minAge)

getEligibleAgeBands(minAge) ==
    SelectSeq(AgeBandOrder, LAMBDA band : isAgeBandEligible(band, minAge))

RECURSIVE MaxMinAge(_, _)
MaxMinAge(traits, i) ==
    IF i > Len(traits) THEN traits[1].minAge
    ELSE LET rest == MaxMinAge(traits, i + 1)
         IN  IF traits[i].minAge > rest THEN traits[i].minAge ELSE rest

RECURSIVE MinMinAge(_, _)
MinMinAge(traits, i) ==
    IF i > Len(traits) THEN traits[1].minAge
    ELSE LET rest == MinMinAge(traits, i + 1)
         IN  IF traits[i].minAge < rest THEN traits[i].minAge ELSE rest

\* the effective minimum age taken with Math.min in place of Math.max
computeEffectiveMinAgeMin(traits) ==
    IF Len(traits) = 0 THEN 0 ELSE MinMinAge(traits, 1)

\* the minimum age of the last of the traits
computeEffectiveMinAgeLast(traits) ==
    IF Len(traits) = 0 THEN 0 ELSE traits[Len(traits)].minAge

\* traits.length === 0 ? 0 : Math.max(...traits.map((t) => t.minAge))
computeEffectiveMinAge(traits) ==
    IF Len(traits) = 0 THEN 0 ELSE MaxMinAge(traits, 1)

RECURSIVE SumPop(_, _)
SumPop(cells, i) ==
    IF i > Len(cells) THEN 0 ELSE cells[i].pop + SumPop(cells, i + 1)

computeDenominatorPop(cells, minAge) ==
    SumPop(SelectSeq(cells, LAMBDA cell : isAgeBandEligible(cell.age_band, minAge)), 1)

\* the label without the special case of 18
getUniverseLabelGeneric(minAge) ==
    IF minAge = 0 THEN "U.S. population (all ages)"
    ELSE "U.S. population (" \o ToString(minAge) \o "+)"

getUniverseLabel(minAge) ==
    IF minAge = 0 THEN "U.S. population (all ages)"
    ELSE IF minAge = 18 THEN "U.S. adults (18+)"
    ELSE IF minAge = 15 THEN "U.S. population (15+)"
    ELSE "U.S. population (" \o ToString(minAge) \o "+)"

hasIneligibleAgeBands(selectedAgeBands, minAge) ==
    IF selectedAgeBands = {} THEN FALSE
    ELSE \E band \in selectedAgeBands : ~isAgeBandEligible(band, minAge)

(***************************************************************************)
(* calculations: the union probability of the selected keys of a dimension *)
(***************************************************************************)
\* a key without an entry taken as certain
ShareOfMissingAsOne(shares, key) == IF key \in DOMAIN shares THEN shares[key].share ELSE One

\* shares[key]?.share ?? 0
ShareOf(shares, key) == IF key \in DOMAIN shares THEN shares[key].share ELSE Zero

RECURSIVE Remaining(_, _)
Remaining(selected, shares) ==
    IF selected = {} THEN One
    ELSE LET key == CHOOSE k \in selected : TRUE
         IN  RMul(RSub(One, ShareOf(shares, key)), Remaining(selected \ {key}, shares))

\* computeDimensionProbability without the early return for an empty selection
computeDimensionProbabilityNoEarlyReturn(selected, shares) ==
    RSub(One, Remaining(selected, shares))

computeDimensionProbability(selected, shares) ==
    IF selected = {} THEN One ELSE RSub(One, Remaining(selected, shares))

\* Array.from(selected).reduce(...): the fold over the keys of the Set in
\* insertion order, from index i on with the product so far
RECURSIVE RemainingInOrder(_, _, _, _)
RemainingInOrder(keys, shares, i, product) ==
    IF i > Len(keys) THEN product
    ELSE RemainingInOrder(keys, shares, i + 1,
                          RMul(product, RSub(One, ShareOf(shares, keys[i]))))

\* computeDimensionProbability of a Set given by its keys in insertion order
computeDimensionProbabilityInOrder(keys, shares) ==
    IF Len(keys) = 0 THEN One ELSE RSub(One, RemainingInOrder(keys, shares, 1, One))

\* formatNumber of an integer: en-US digits grouped in threes by commas
RECURSIVE Grouped(_)
Grouped(n) ==
    IF n < 1000 THEN ToString(n)
    ELSE Grouped(n \div 1000) \o "," \o
         (IF n % 1000 < 10 THEN "00" ELSE IF n % 1000 < 100 THEN "0" ELSE "") \o
         ToString(n % 1000)

formatNumber(value) == IF value < 0 THEN "-" \o Grouped(-value) ELSE Grouped(value)

(***************************************************************************)
(* populationEngine.  A Selection is a record of sets of keys, one per     *)
(* dimension; modeledTraits is the sequence of a JavaScript Set's keys in  *)
(* insertion order (the order traitProduct visits them in).  A trait       *)
(* probability table is a function whose DOMAIN is the set of cell ids it  *)
(* has an entry for.                                                       *)
(***************************************************************************)
Range(seq) == {seq[i] : i \in DOMAIN seq}

\* filterCells testing the region without the `size ?` guard, so that an
\* empty region selection matches no cell
filterCellsRegionStrict(cells, selection, effectiveMinAge) ==
    SelectSeq(cells, LAMBDA cell :
        /\ isAgeBandEligible(cell.age_band, effectiveMinAge)
        /\ cell.region \in selection.region
        /\ selection.sex # {} => cell.sex \in selection.sex
        /\ selection.ageBand # {} => cell.age_band \in selection.ageBand)

\* filterCells in which a selected age band overrides the minimum age
filterCellsAnyAge(cells, selection, effectiveMinAge) ==
    SelectSeq(cells, LAMBDA cell :
        /\ selection.ageBand = {} => isAgeBandEligible(cell.age_band, effectiveMinAge)
        /\ selection.region # {} => cell.region \in selection.region
        /\ selection.sex # {} => cell.sex \in selection.sex
        /\ selection.ageBand # {} => cell.age_band \in selection.ageBand)

\* filterCells without the test of the sex
filterCellsIgnoringSex(cells, selection, effectiveMinAge) ==
    SelectSeq(cells, LAMBDA cell :
        /\ isAgeBandEligible(cell.age_band, effectiveMinAge)
        /\ selection.region # {} => cell.region \in selection.region
        /\ selection.ageBand # {} => cell.age_band \in selection.ageBand)

filterCells(cells, selection, effectiveMinAge) ==
    SelectSeq(cells, LAMBDA cell :
        IF ~isAgeBandEligible(cell.age_band, effectiveMinAge) THEN FALSE
        ELSE LET matchesRegion ==
                     IF selection.region # {} THEN cell.region \in selection.region ELSE TRUE
                 matchesSex ==
                     IF selection.sex # {} THEN cell.sex \in selection.sex ELSE TRUE
                 matchesAge ==
                     IF selection.ageBand # {}
                     THEN cell.age_band \in selection.ageBand
                          /\ isAgeBandEligible(cell.age_band, effectiveMinAge)
                     ELSE TRUE
             IN  matchesRegion /\ matchesSex /\ matchesAge)

\* the entries with employment among them
BaseShareDimensionsWithEmployment ==
    <<"race", "employment", "children", "income", "education", "householdType", "transport">>

\* the dimensions of the base share factor, in the order of `entries`
BaseShareDimensions ==
    <<"race", "children", "income", "education", "householdType", "transport">>

ShareProduct(dims, selection, population, i) ==
    RProduct([k \in DOMAIN dims |->
                 computeDimensionProbability(selection[dims[k]],
                                             population.dimensions[dims[k]])],
             i, Len(dims))

computeBaseShareFactor(selection, population) ==
    clamp(ShareProduct(BaseShareDimensions, selection, population, 1), Zero, One)

\* the employment factor without the age eligibility of the cell
computeCellEmploymentFactorAgeBlind(ageBand, selection, population) ==
    IF selection.employment = {} THEN One
    ELSE computeDimensionProbability(selection.employment, population.dimensions.employment)

\* the employment factor without the early return for an empty employment
\* selection
computeCellEmploymentFactorNoEarlyReturn(ageBand, selection, population) ==
    IF getEmploymentEligibilityFactor(ageBand) = Zero THEN Zero
    ELSE RMul(getEmploymentEligibilityFactor(ageBand),
              computeDimensionProbability(selection.employment,
                                          population.dimensions.employment))

computeCellEmploymentFactor(ageBand, selection, population) ==
    IF selection.employment = {} THEN One
    ELSE LET eligibilityFactor == getEmploymentEligibilityFactor(ageBand)
         IN  IF eligibilityFactor = Zero THEN Zero
             ELSE RMul(eligibilityFactor,
                       computeDimensionProbability(selection.employment,
                                                   population.dimensions.employment))

\* probabilities[key]?.[cellId] !== undefined
HasProbability(probabilities, key, cellId) ==
    /\ key \in DOMAIN probabilities
    /\ cellId \in DOMAIN probabilities[key]

\* the index in traitKeys of the first key whose lookup is undefined at the
\* cell (where the reduce of traitProduct throws), 0 when every lookup succeeds
FirstMissing(cellId, traitKeys, probabilities) ==
    LET missing == {i \in DOMAIN traitKeys : ~HasProbability(probabilities, traitKeys[i], cellId)}
    IN  IF missing = {} THEN 0 ELSE CHOOSE i \in missing : \A j \in missing : i <= j

\* the reduce of traitProduct from key i on, every lookup succeeding
RECURSIVE TraitFold(_, _, _, _, _)
TraitFold(cellId, traitKeys, probabilities, manifest, i) ==
    IF i > Len(traitKeys) THEN One
    ELSE LET prob == probabilities[traitKeys[i]][cellId]
             effectiveProb ==
                 IF isAtusOrHobbyTrait(traitKeys[i], manifest) THEN dailyToWeekly(prob) ELSE prob
         IN  RMul(effectiveProb, TraitFold(cellId, traitKeys, probabilities, manifest, i + 1))

\* the Error traitProduct throws: `Missing probability for trait ${key} at cell ${cellId}. ...`
MissingProbabilityError(key, cellId) ==
    [text |-> "Missing probability for trait", trait |-> key, cell |-> cellId]

\* a reduce that substitutes 1 for a missing entry instead of throwing
TraitFoldDefaulting(cellId, traitKeys, probabilities, manifest) ==
    TraitFold(cellId,
              SelectSeq(traitKeys, LAMBDA key : HasProbability(probabilities, key, cellId)),
              probabilities, manifest, 1)

\* traitProduct with `?? 1` in place of the throw
traitProductDefaulting(cellId, traitKeys, probabilities, manifest) ==
    [threw |-> FALSE, value |-> TraitFoldDefaulting(cellId, traitKeys, probabilities, manifest)]

\* traitProduct: threw = TRUE with the Error of the first missing entry, or
\* threw = FALSE with the product
traitProduct(cellId, traitKeys, probabilities, manifest) ==
    IF FirstMissing(cellId, traitKeys, probabilities) # 0
    THEN [threw |-> TRUE,
          error |-> MissingProbabilityError(
                        traitKeys[FirstMissing(cellId, traitKeys, probabilities)], cellId)]
    ELSE [threw |-> FALSE, value |-> TraitFold(cellId, traitKeys, probabilities, manifest, 1)]

\* traitKeys.length ? traitProduct(...) : 1, where traitProduct returns
ModeledMultiplier(cell, traitKeys, modeled) ==
    IF Len(traitKeys) # 0
    THEN traitProduct(cell.cell_id, traitKeys, modeled.traitProbabilities, modeled.manifest).value
    ELSE One

\* cellContribution of the reduce, lines 150-159
CellContribution(cell, traitKeys, selection, modeled, population, baseShareFactor) ==
    RMul(RMul(RMul(Num(cell.pop), ModeledMultiplier(cell, traitKeys, modeled)),
              computeCellEmploymentFactor(cell.age_band, selection, population)),
         baseShareFactor)

\* the reduce of lines 149-161 over the cells from index i on
WeightedSum(filtered, traitKeys, selection, modeled, population, baseShareFactor, i) ==
    RSum([k \in DOMAIN filtered |->
             CellContribution(filtered[k], traitKeys, selection, modeled, population,
                              baseShareFactor)],
         i, Len(filtered))

\* the reduce of lines 168-173 over the cells from index i on
BaseWeightedSum(filtered, traitKeys, modeled, i) ==
    RSum([k \in DOMAIN filtered |->
             RMul(Num(filtered[k].pop), ModeledMultiplier(filtered[k], traitKeys, modeled))],
         i, Len(filtered))

\* 0 / 0 in the engine's numbers
NaN == [n |-> 0, d |-> 0]

\* the probability without the test of the denominator (0 / 0 where nobody
\* is eligible and so nothing is summed)
ProbabilityUnguarded(estimated, denominatorPop) ==
    IF denominatorPop # 0 THEN clamp(RDiv(estimated, Num(denominatorPop)), Zero, One) ELSE NaN

\* lines 164 and 178: clamp(denominatorPop ? estimated / denominatorPop : 0, 0, 1)
Probability(estimated, denominatorPop) ==
    clamp(IF denominatorPop # 0 THEN RDiv(estimated, Num(denominatorPop)) ELSE Zero, Zero, One)

\* lines 174 and 179: clamp(baseWeightedSum > 0 ? estimated / baseWeightedSum : 1, 0, 1)
ShareFactor(estimated, baseWeightedSum) ==
    clamp(IF RLess(Zero, baseWeightedSum) THEN RDiv(estimated, baseWeightedSum) ELSE One,
          Zero, One)

\* the flag set as soon as any trait is selected
nationalModelSelectedAnyTrait(selectedTraits) == Len(selectedTraits) > 0

\* line 134: selectedTraits.some((t) => t.regionSupport === 'national_only')
nationalModelSelected(selectedTraits) ==
    \E i \in DOMAIN selectedTraits : selectedTraits[i].regionSupport = "national_only"

\* an EstimateResult whose probability is taken from the rounded count
EstimateReturnFromRoundedCount(filtered, denominatorPop, selectedTraits, effectiveMinAge, weightedSum, baseWeightedSum) ==
    [threw |-> FALSE,
     estimated |-> MathRound(weightedSum),
     probability |-> Probability(Num(MathRound(weightedSum)), denominatorPop),
     shareFactor |-> ShareFactor(weightedSum, baseWeightedSum),
     matchingCells |-> Len(filtered),
     denominatorPop |-> denominatorPop,
     universeLabel |-> getUniverseLabel(effectiveMinAge),
     nationalModelSelected |-> nationalModelSelected(selectedTraits),
     effectiveMinAge |-> effectiveMinAge]

\* estimatePopulation, lines 176-185: the EstimateResult built from the sums
EstimateReturn(filtered, denominatorPop, selectedTraits, effectiveMinAge, weightedSum, baseWeightedSum) ==
    [threw |-> FALSE,
     estimated |-> MathRound(weightedSum),
     probability |-> Probability(weightedSum, denominatorPop),
     shareFactor |-> ShareFactor(weightedSum, baseWeightedSum),
     matchingCells |-> Len(filtered),
     denominatorPop |-> denominatorPop,
     universeLabel |-> getUniverseLabel(effectiveMinAge),
     nationalModelSelected |-> nationalModelSelected(selectedTraits),
     effectiveMinAge |-> effectiveMinAge]

\* the indices of the filtered cells at which traitProduct throws
Throwing(filtered, traitKeys, probabilities, manifest) ==
    IF Len(traitKeys) = 0 THEN {}
    ELSE {i \in DOMAIN filtered :
              traitProduct(filtered[i].cell_id, traitKeys, probabilities, manifest).threw}

\* the Error that leaves estimatePopulation: the one of the first such cell
FirstError(filtered, traitKeys, probabilities, manifest, throwing) ==
    [threw |-> TRUE,
     error |-> traitProduct(filtered[CHOOSE k \in throwing : \A j \in throwing : k <= j].cell_id,
                            traitKeys, probabilities, manifest).error]

\* estimatePopulation, lines 137-140: the denominator of the universe
\* the stored total whatever the minimum age
DenominatorPopStoredTotal(modeled, effectiveMinAge) == modeled.acsCells.total_pop

DenominatorPop(modeled, effectiveMinAge) ==
    IF effectiveMinAge = 0 THEN modeled.acsCells.total_pop
    ELSE computeDenominatorPop(modeled.acsCells.cells, effectiveMinAge)

\* estimatePopulation, lines 145-185: the two reduces over the filtered cells,
\* the first of which either throws or yields the weighted sum
EstimateOver(selection, modeled, population, selectedTraits, effectiveMinAge, filtered, throwing) ==
    IF throwing # {}
    THEN FirstError(filtered, selection.modeledTraits, modeled.traitProbabilities,
                    modeled.manifest, throwing)
    ELSE EstimateReturn(
             filtered, DenominatorPop(modeled, effectiveMinAge), selectedTraits, effectiveMinAge,
             WeightedSum(filtered, selection.modeledTraits, selection, modeled, population,
                         computeBaseShareFactor(selection, population), 1),
             BaseWeightedSum(filtered, selection.modeledTraits, modeled, 1))

\* estimatePopulation, lines 142-143: the cells that pass the filter
EstimateFiltered(selection, modeled, population, selectedTraits, effectiveMinAge, filtered) ==
    EstimateOver(selection, modeled, population, selectedTraits, effectiveMinAge, filtered,
                 Throwing(filtered, selection.modeledTraits, modeled.traitProbabilities,
                          modeled.manifest))

\* estimatePopulation, lines 130-131: the effective minimum age
EstimateSelected(selection, modeled, population, selectedTraits, effectiveMinAge) ==
    EstimateFiltered(selection, modeled, population, selectedTraits, effectiveMinAge,
                     filterCells(modeled.acsCells.cells, selection, effectiveMinAge))

\* modeled.manifest.traits.filter((t) => traitKeys.includes(t.key))
SelectedTraits(traitKeys, manifest) ==
    SelectSeq(manifest.traits, LAMBDA t : t.key \in Range(traitKeys))

\* estimatePopulation, lines 127-131: the selected traits
EstimateTraits(selection, modeled, population, selectedTraits) ==
    EstimateSelected(selection, modeled, population, selectedTraits,
                     computeEffectiveMinAge(selectedTraits))

\* the result of estimatePopulation: threw = TRUE with the Error thrown out of
\* traitProduct at the first filtered cell a selected trait has no entry for,
\* threw = FALSE with the EstimateResult otherwise.  The stages above are the
\* consecutive statements of the function, each taking the values computed
\* before it.
estimatePopulation(selection, modeled, population) ==
    EstimateTraits(selection, modeled, population,
                   SelectedTraits(selection.modeledTraits, modeled.manifest))

(***************************************************************************)
(* The inputs of the engine: a cell backbone, the category shares, the     *)
(* trait manifest and the trait probability tables.                        *)
(***************************************************************************)
ModelRegions == <<"northeast", "south">>
ModelSexes == <<"male", "female">>
ModelBands == <<"0_14", "15_17", "18_24", "65_plus">>

\* the cell backbone as the generator writes it: one cell per region, sex and
\* band (in that nesting), total_pop the sum of the cell populations
MakeAcsCells(pops) ==
    LET cells ==
            [i \in 1..Len(pops) |->
                LET region == ModelRegions[((i - 1) \div (Len(ModelSexes) * Len(ModelBands))) + 1]
                    sex == ModelSexes[(((i - 1) \div Len(ModelBands)) % Len(ModelSexes)) + 1]
                    band == ModelBands[((i - 1) % Len(ModelBands)) + 1]
                IN  [cell_id |-> <<region, sex, band>>, region |-> region, sex |-> sex,
                     age_band |-> band, pop |-> pops[i]]]
    IN  [total_pop |-> SumPop(cells, 1), cells |-> cells]

\* cell populations: a mixed backbone, and one with nobody aged 18 or more
MixedPops == <<30, 12, 25, 41,  22, 17, 50, 13,  11, 34, 20, 26,  40, 15, 10, 33>>
MinorPops == <<21, 9, 0, 0,  14, 30, 0, 0,  33, 18, 0, 0,  12, 11, 0, 0>>

Stats(n, d) == [count |-> 0, share |-> Rat(n, d)]

\* category shares
MidShares ==
    [race |-> ("white" :> Stats(1, 2) @@ "black" :> Stats(1, 4)),
     employment |-> ("employed" :> Stats(1, 2) @@ "unemployed" :> Stats(1, 4)),
     children |-> ("hasChildren" :> Stats(1, 2)),
     income |-> ("under25k" :> Stats(1, 4)),
     education |-> ("bachelors" :> Stats(3, 4)),
     householdType |-> ("livingAlone" :> Stats(1, 2)),
     transport |-> ("hasVehicle1plus" :> Stats(3, 4))]

\* category shares with shares of 0 and of 1, and without the entries of
\* race.black and of transport.hasVehicle1plus
EdgeShares ==
    [race |-> ("white" :> Stats(1, 1)),
     employment |-> ("employed" :> Stats(3, 4) @@ "unemployed" :> Stats(0, 1)),
     children |-> ("hasChildren" :> Stats(1, 1)),
     income |-> ("under25k" :> Stats(0, 1)),
     education |-> ("bachelors" :> Stats(1, 2)),
     householdType |-> ("livingAlone" :> Stats(1, 4)),
     transport |-> ("noVehicle" :> Stats(1, 4))]

Manifest ==
    [traits |->
        << [key |-> "smokes", group |-> "Health", source |-> "BRFSS 2023",
            minAge |-> 18, regionSupport |-> "modeled"],
           [key |-> "plays_sports", group |-> "Hobbies", source |-> "ATUS 2023",
            minAge |-> 15, regionSupport |-> "national_only"] >>]

\* the probability a table holds for a trait at a cell
ProbValue(key, cellId) ==
    IF key = "smokes"
    THEN (IF cellId[2] = "male" THEN Rat(1, 2)
          ELSE IF cellId[3] = "65_plus" THEN Rat(0, 1) ELSE Rat(1, 4))
    ELSE (IF cellId[1] = "south" THEN Rat(1, 2)
          ELSE IF cellId[2] = "male" THEN Rat(1, 1) ELSE Rat(0, 1))

\* the cells a table of the given coverage has an entry for: every cell, the
\* cells that are age-eligible for the trait, or those less one
CoveredCells(coverage, trait, cells) ==
    LET all == {cells[i].cell_id : i \in DOMAIN cells}
        eligible == {id \in all : isAgeBandEligible(id[3], trait.minAge)}
    IN  IF coverage = "all" THEN all
        ELSE IF coverage = "eligible" THEN eligible
        ELSE eligible \ {<<"south", "female", "65_plus">>}

MakeTraitProbabilities(coverage, cells) ==
    [key \in {Manifest.traits[i].key : i \in DOMAIN Manifest.traits} |->
        LET trait == Manifest.traits[FindTrait(Manifest.traits, key)]
        IN  [id \in CoveredCells(coverage, trait, cells) |-> ProbValue(key, id)]]

MakeModeled(pops, coverage) ==
    LET acsCells == MakeAcsCells(pops)
    IN  [acsCells |-> acsCells, manifest |-> Manifest,
         traitProbabilities |-> MakeTraitProbabilities(coverage, acsCells.cells)]

(***************************************************************************)
(* The App component: the loaded data, the Selection and the memoised      *)
(* estimate, and the handlers that change the Selection.                   *)
(***************************************************************************)
\* modeled and population are the two parts of `data` (Null before the load
\* has resolved), loading and error the state of the same names, load the
\* call of loadAppData in flight, anim the state of useAnimatedNumber, and
\* call the last call of a helper made on its own: its name, arguments and
\* result.
VARIABLES modeled, population, selection, estimateResult, call, loading, error, load, anim

vars == <<modeled, population, selection, estimateResult, call, loading, error, load, anim>>

\* no helper called yet
NoCall == [op |-> "none"]

\* no call of loadAppData in flight
LoadDone == [pc |-> "done"]

\* no MainStat mounted, so no animation
AnimIdle == [mounted |-> FALSE]

\* error: null
Null == [null |-> TRUE]

createBlankSelection ==
    [sex |-> {}, race |-> {}, region |-> {}, ageBand |-> {}, modeledTraits |-> <<>>,
     employment |-> {}, children |-> {}, income |-> {}, education |-> {},
     householdType |-> {}, transport |-> {}]

defaultResult ==
    [estimated |-> 0, probability |-> Zero, shareFactor |-> One, matchingCells |-> 0,
     denominatorPop |-> 0, universeLabel |-> "U.S. population (all ages)",
     nationalModelSelected |-> FALSE, effectiveMinAge |-> 0, error |-> Null]

\* a catch that returns the default result and drops the message
WithErrorSwallowed(result) ==
    IF result.threw THEN defaultResult
    ELSE [estimated |-> result.estimated, probability |-> result.probability,
          shareFactor |-> result.shareFactor, matchingCells |-> result.matchingCells,
          denominatorPop |-> result.denominatorPop, universeLabel |-> result.universeLabel,
          nationalModelSelected |-> result.nationalModelSelected,
          effectiveMinAge |-> result.effectiveMinAge, error |-> Null]

\* { ...result, error: null }, or { ...defaultResult, error: message } in the catch
WithError(result) ==
    IF result.threw THEN [defaultResult EXCEPT !.error = result.error]
    ELSE [estimated |-> result.estimated, probability |-> result.probability,
          shareFactor |-> result.shareFactor, matchingCells |-> result.matchingCells,
          denominatorPop |-> result.denominatorPop, universeLabel |-> result.universeLabel,
          nationalModelSelected |-> result.nationalModelSelected,
          effectiveMinAge |-> result.effectiveMinAge, error |-> Null]

\* the useMemo of estimateResult, for loaded data
ComputeEstimateResult(sel, mod, pop) == WithError(estimatePopulation(sel, mod, pop))

\* const activeError = error ?? estimateResult.error
activeError(loadError, result) == IF loadError # Null THEN loadError ELSE result.error

\* the keys the checkboxes of the model offer, per dimension
OptionKeys ==
    [sex |-> Range(ModelSexes), race |-> {"white", "black"}, region |-> Range(ModelRegions),
     ageBand |-> Range(ModelBands),
     modeledTraits |-> {Manifest.traits[i].key : i \in DOMAIN Manifest.traits},
     employment |-> {"employed", "unemployed"}, children |-> {"hasChildren"},
     income |-> {"under25k"}, education |-> {"bachelors"},
     householdType |-> {"livingAlone"}, transport |-> {"hasVehicle1plus"}]

SetDimensions == DOMAIN OptionKeys \ {"modeledTraits"}

\* how many keys a Selection holds
SelectedCount(sel) ==
    Cardinality(sel.sex) + Cardinality(sel.race) + Cardinality(sel.region)
    + Cardinality(sel.ageBand) + Len(sel.modeledTraits) + Cardinality(sel.employment)
    + Cardinality(sel.children) + Cardinality(sel.income) + Cardinality(sel.education)
    + Cardinality(sel.householdType) + Cardinality(sel.transport)

\* Set.add and Set.delete on the insertion-ordered key list of a Set
SetAdd(keys, key) == IF key \in Range(keys) THEN keys ELSE Append(keys, key)
SetDelete(keys, key) == SelectSeq(keys, LAMBDA k : k # key)

\* the data sets the App is loaded with
Datasets ==
    { [pops |-> MixedPops, coverage |-> "all", shares |-> MidShares],
      [pops |-> MixedPops, coverage |-> "gap", shares |-> EdgeShares],
      [pops |-> MinorPops, coverage |-> "eligible", shares |-> EdgeShares] }

Init ==
    /\ \E data \in Datasets :
           /\ modeled = MakeModeled(data.pops, data.coverage)
           /\ population = [dimensions |-> data.shares]
    /\ selection = createBlankSelection
    /\ estimateResult = ComputeEstimateResult(selection, modeled, population)
    /\ call = NoCall
    /\ loading = FALSE
    /\ error = Null
    /\ load = LoadDone
    /\ anim = AnimIdle

\* a memo that does not list the Selection among its dependencies
SetSelectionStaleMemo(next) ==
    /\ selection' = next
    /\ UNCHANGED <<modeled, population, estimateResult, call, loading, error, load, anim>>

\* setSelection followed by the re-render that recomputes the memo
SetSelection(next) ==
    /\ selection' = next
    /\ estimateResult' = ComputeEstimateResult(selection', modeled, population)
    /\ UNCHANGED <<modeled, population, call, loading, error, load, anim>>

\* the updater toggleSelection passes to setSelection
Toggled(prev, dimension, key, checked) ==
    IF dimension = "modeledTraits"
    THEN [prev EXCEPT !.modeledTraits = IF checked THEN SetAdd(@, key) ELSE SetDelete(@, key)]
    ELSE [prev EXCEPT ![dimension] = IF checked THEN @ \cup {key} ELSE @ \ {key}]

\* The same updater on objects.  A Selection object holds, per dimension, the
\* address of a Set; the heap gives the keys of the Set at each address.
SelectionFields ==
    <<"sex", "race", "region", "ageBand", "modeledTraits", "employment", "children",
      "income", "education", "householdType", "transport">>

\* a Selection object with one Set per dimension, on a heap of its own
AllocSelection(sel) ==
    [heap |-> [a \in DOMAIN SelectionFields |-> sel[SelectionFields[a]]],
     selection |-> [dimension \in DOMAIN sel |->
                       CHOOSE a \in DOMAIN SelectionFields : SelectionFields[a] = dimension]]

\* the keys a Selection object holds, read through the heap
Deref(heap, object) == [dimension \in DOMAIN object |-> heap[object[dimension]]]

\* Set.add / Set.delete on the keys of one Set
KeysToggled(keys, dimension, key, checked) ==
    IF dimension = "modeledTraits"
    THEN IF checked THEN SetAdd(keys, key) ELSE SetDelete(keys, key)
    ELSE IF checked THEN keys \cup {key} ELSE keys \ {key}

\* an updater that adds to or deletes from the Set of prev itself
toggleSelectionUpdaterInPlace(heap, prev, dimension, key, checked) ==
    LET nextSet == prev[dimension]
    IN  [heap |-> [heap EXCEPT ![nextSet] = KeysToggled(@, dimension, key, checked)],
         selection |-> [prev EXCEPT ![dimension] = nextSet]]

\* toggleSelection's updater: nextSet = new Set(prev[dimension]); add or
\* delete; return { ...prev, [dimension]: nextSet }
toggleSelectionUpdater(heap, prev, dimension, key, checked) ==
    LET nextSet == Len(heap) + 1
        copied == Append(heap, heap[prev[dimension]])
    IN  [heap |-> [copied EXCEPT ![nextSet] = KeysToggled(@, dimension, key, checked)],
         selection |-> [prev EXCEPT ![dimension] = nextSet]]

toggleSelection(dimension, key, checked) ==
    /\ checked => SelectedCount(selection) < MaxSelected
    /\ SetSelection(Toggled(selection, dimension, key, checked))

resetFilters == SetSelection(createBlankSelection)

\* the updater setAgeToEligible passes to setSelection
AgeSetToEligible(prev, minAge) ==
    [prev EXCEPT !.ageBand = Range(getEligibleAgeBands(minAge))]

setAgeToEligible(minAge) == SetSelection(AgeSetToEligible(selection, minAge))

UNDER_18_BANDS == <<"0_14", "15_17">>

toggleUnder18(checked) ==
    /\ checked => SelectedCount(selection) < MaxSelected
    /\ SetSelection([selection EXCEPT !.ageBand =
         IF checked THEN @ \cup Range(UNDER_18_BANDS) ELSE @ \ Range(UNDER_18_BANDS)])

\* whether the Selection holds the key (the `checked` prop of its checkbox)
IsChecked(sel, dimension, key) ==
    IF dimension = "modeledTraits" THEN key \in Range(sel.modeledTraits)
    ELSE key \in sel[dimension]

\* HomePage: isTraitDisabled
isTraitDisabled(sel, trait) == hasIneligibleAgeBands(sel.ageBand, trait.minAge)

\* a click on a checkbox: onChange passes the box's new state; the checkbox of
\* a disabled trait passes nothing on
Toggle ==
    \E dimension \in DOMAIN OptionKeys :
        \E key \in OptionKeys[dimension] :
            /\ dimension = "modeledTraits" =>
                   ~isTraitDisabled(selection,
                        modeled.manifest.traits[FindTrait(modeled.manifest.traits, key)])
            /\ toggleSelection(dimension, key, ~IsChecked(selection, dimension, key))

\* a click on the "Under 18" box, which is checked when both bands are selected
ToggleUnder18 == toggleUnder18(~(Range(UNDER_18_BANDS) \subseteq selection.ageBand))

\* the "enable" link of a disabled trait checkbox
EnableTrait ==
    \E i \in DOMAIN modeled.manifest.traits :
        /\ isTraitDisabled(selection, modeled.manifest.traits[i])
        /\ setAgeToEligible(modeled.manifest.traits[i].minAge)

Next == Toggle \/ ToggleUnder18 \/ EnableTrait \/ resetFilters

Spec == Init /\ [][Next]_vars

(***************************************************************************)
(* dataLoader and the load effect of the App.  A file on the server is     *)
(* either absent (the response is not ok) or has a body.  loadAppData is   *)
(* taken in steps: the Promise.all of the three fetches, then one step per *)
(* trait of the manifest, then the App's continuation.  An Error is a      *)
(* record holding the fixed part of its message and what it names.         *)
(***************************************************************************)
\* validateAcsCells that tolerates a difference of 2
validateAcsCellsLenient(acsCells) ==
    IF Abs(SumPop(acsCells.cells, 1) - acsCells.total_pop) > 2
    THEN [acsCells EXCEPT !.total_pop = SumPop(acsCells.cells, 1)]
    ELSE acsCells

\* dataLoader: the stored total replaced by the sum of the cells when they
\* differ by more than 1
validateAcsCells(acsCells) ==
    IF Abs(SumPop(acsCells.cells, 1) - acsCells.total_pop) > 1
    THEN [acsCells EXCEPT !.total_pop = SumPop(acsCells.cells, 1)]
    ELSE acsCells

Absent == [ok |-> FALSE]
Body(body) == [ok |-> TRUE, body |-> body]

\* the onError messages of the three fetches of Promise.all
FetchMessages ==
    [population |-> "We could not load the Census-derived data. Please try refreshing.",
     acsCells |-> "ACS cell backbone is missing. Run npm run build:acs-cells to regenerate.",
     manifest |-> "Modeled trait manifest is missing. Run npm run build:modeled-data."]

\* `Modeled trait file ${trait.key} is missing. Run npm run build:modeled-data.`
TraitFileMissingError(key) == [message |-> "Modeled trait file is missing", trait |-> key]

\* `Trait ${traitKey} is missing probabilities for cells: ...`
MissingCellsError(key, missingCells) ==
    [message |-> "Trait is missing probabilities for cells", trait |-> key,
     cells |-> missingCells]

\* validateTraitProbabilities that only warns
validateTraitProbabilitiesWarnOnly(traitKey, probabilities, cellIds) == [threw |-> FALSE]

\* validateTraitProbabilities: throws when a cell id has no entry
validateTraitProbabilities(traitKey, probabilities, cellIds) ==
    LET missingCells == {cellId \in cellIds : cellId \notin DOMAIN probabilities}
    IN  IF missingCells # {}
        THEN [threw |-> TRUE, error |-> MissingCellsError(traitKey, missingCells)]
        ELSE [threw |-> FALSE]

\* new Set(acsCells.cells.map((c) => c.cell_id))
CellIds(acsCells) == {acsCells.cells[i].cell_id : i \in DOMAIN acsCells.cells}

\* the cells whose band starts at the trait's minimum age or above
eligibleCellIdsByMinAge(trait, acsCells) ==
    {acsCells.cells[i].cell_id :
         i \in {j \in DOMAIN acsCells.cells :
                    isAgeBandEligible(acsCells.cells[j].age_band, trait.minAge)}}

\* loadAppData, lines 123-125: the cells a trait's table is checked against
eligibleCellIds(trait, acsCells) ==
    IF trait.minAge >= 18
    THEN {acsCells.cells[i].cell_id :
              i \in {j \in DOMAIN acsCells.cells : acsCells.cells[j].age_band # "0_17"}}
    ELSE CellIds(acsCells)

\* the files on the server: the shares, the backbone with a stored total off
\* by 0, 1 or 5, the manifest, and per trait a table of some coverage
TotalOffsets == {0, 1, 5}
BackboneFiles ==
    {[MakeAcsCells(MixedPops) EXCEPT !.total_pop = @ + delta] : delta \in TotalOffsets}
TraitFile(key, coverage) ==
    [prob_by_cell |-> MakeTraitProbabilities(coverage, MakeAcsCells(MixedPops).cells)[key]]
TraitFiles(key) == {Absent} \cup {Body(TraitFile(key, coverage)) : coverage \in {"all", "eligible", "gap"}}
FileInputs ==
    [population : {Absent, Body([dimensions |-> MidShares])},
     acsCells : {Absent} \cup {Body(b) : b \in BackboneFiles},
     manifest : {Absent, Body(Manifest)},
     traits : [smokes : TraitFiles("smokes"), plays_sports : TraitFiles("plays_sports")]]

\* the App as constructed: no data, loading, and loadAppData about to fetch
LoadInit ==
    /\ modeled = Null
    /\ population = Null
    /\ selection = createBlankSelection
    /\ estimateResult = defaultResult
    /\ call = NoCall
    /\ loading = TRUE
    /\ error = Null
    /\ \E files \in FileInputs : load = [pc |-> "fetch", files |-> files]
    /\ anim = AnimIdle

\* loadAppData, lines 92-111: Promise.all rejects with the Error of a fetch
\* that failed (the first to fail, which is any of them), or resolves and the
\* backbone is validated
FetchAll ==
    /\ load.pc = "fetch"
    /\ LET failed == {f \in DOMAIN FetchMessages : ~load.files[f].ok}
       IN  IF failed # {}
           THEN \E f \in failed :
                    load' = [pc |-> "rejected", files |-> load.files,
                             error |-> [message |-> FetchMessages[f]]]
           ELSE load' = [pc |-> "traits", files |-> load.files,
                         population |-> load.files.population.body,
                         acsCells |-> validateAcsCells(load.files.acsCells.body),
                         manifest |-> load.files.manifest.body,
                         i |-> 1, traitProbabilities |-> <<>>]
    /\ UNCHANGED <<modeled, population, selection, estimateResult, call, loading, error, anim>>

\* loadAppData, lines 115-129: one turn of the loop over manifest.traits
FetchTrait ==
    /\ load.pc = "traits"
    /\ load.i <= Len(load.manifest.traits)
    /\ LET trait == load.manifest.traits[load.i]
           file == load.files.traits[trait.key]
       IN  IF ~file.ok
           THEN load' = [pc |-> "rejected", files |-> load.files,
                         error |-> TraitFileMissingError(trait.key)]
           ELSE LET checked == validateTraitProbabilities(
                                   trait.key, file.body.prob_by_cell,
                                   eligibleCellIds(trait, load.acsCells))
                IN  IF checked.threw
                    THEN load' = [pc |-> "rejected", files |-> load.files,
                                  error |-> checked.error]
                    ELSE load' = [load EXCEPT
                                      !.i = @ + 1,
                                      !.traitProbabilities =
                                          @ @@ (trait.key :> file.body.prob_by_cell)]
    /\ UNCHANGED <<modeled, population, selection, estimateResult, call, loading, error, anim>>

\* a catch without the finally
LoadRejectedStillLoading ==
    /\ load.pc = "rejected"
    /\ error' = load.error
    /\ load' = [pc |-> "done", files |-> load.files]
    /\ UNCHANGED <<modeled, population, selection, estimateResult, call, loading, anim>>

\* App, load effect: loadAppData resolved; setData(payload), setError(null),
\* setLoading(false), and the memo recomputes for the new data
LoadResolved ==
    /\ load.pc = "traits"
    /\ load.i > Len(load.manifest.traits)
    /\ LET payload == [acsCells |-> load.acsCells, manifest |-> load.manifest,
                        traitProbabilities |-> load.traitProbabilities]
       IN  /\ modeled' = payload
           /\ estimateResult' = ComputeEstimateResult(selection, payload, load.population)
    /\ population' = load.population
    /\ error' = Null
    /\ loading' = FALSE
    /\ load' = [pc |-> "done", files |-> load.files]
    /\ UNCHANGED <<selection, call, anim>>

\* App, load effect: loadAppData rejected; setError(message), setLoading(false)
LoadRejected ==
    /\ load.pc = "rejected"
    /\ error' = load.error
    /\ loading' = FALSE
    /\ load' = [pc |-> "done", files |-> load.files]
    /\ UNCHANGED <<modeled, population, selection, estimateResult, call, anim>>

LoadStep == FetchAll \/ FetchTrait \/ LoadResolved \/ LoadRejected

\* the filters are rendered once the data is there
UserStep == modeled # Null /\ Next

LoadNext == LoadStep \/ UserStep

LoadSpec == LoadInit /\ [][LoadNext]_vars

\* the position of the load moves on: a step of LoadStep, seen on load alone
LoadAdvances ==
    \/ FetchAll
    \/ FetchTrait
    \/ LoadRejected
    \/ /\ load.pc = "traits"
       /\ load.i > Len(load.manifest.traits)
       /\ load' = [pc |-> "done", files |-> load.files]

\* the browser settles every fetch and runs every continuation
LoadFairSpec == LoadSpec /\ WF_load(LoadAdvances)

(***************************************************************************)
(* The helpers called on their own, with arguments from bounded sets.      *)
(***************************************************************************)
\* a test that takes an estimate of 0 for a tiny one
isTinyIncludingZero(estimated) == estimated < 1000

\* MainStat: const isTiny = estimated > 0 && estimated < 1000
isTiny(estimated) == estimated > 0 /\ estimated < 1000

\* MainStat: isTiny ? 'Fewer than 1,000' : formatNumber(animatedValue)
primaryText(estimated, animatedValue) ==
    IF isTiny(estimated) THEN "Fewer than 1,000" ELSE formatNumber(animatedValue)

\* daily probabilities: quarters from -1 to 2, and two tenths
DailyInputs == {Rat(n, 4) : n \in -4..8} \cup {Rat(1, 10), Rat(9, 10)}

\* estimates and animated values (useAnimatedNumber returns Math.round values)
EstimatedInputs == {0, 1, 2, 999, 1000, 1001, 12345, 1234567}
AnimatedInputs == {0, 1, 500, 999, 1000, 1001, 1002003, 1234567}

\* backbones of up to MaxCells cells whose stored total is off by -3..3
CellPops == UNION {[1..n -> {0, 3, 10}] : n \in 0..MaxCells}
BackboneInputs ==
    {[MakeAcsCells(pops) EXCEPT !.total_pop = @ + delta] :
        pops \in CellPops, delta \in -3..3}

\* Sets of up to MaxKeys keys in every insertion order, and share tables
\* without an entry for asian
DimensionKeys == {"white", "black", "asian", "other"}
KeyInputs ==
    UNION {{keys \in [1..n -> DimensionKeys] :
               \A i, j \in 1..n : keys[i] = keys[j] => i = j} : n \in 0..MaxKeys}
ShareValues == {Zero, Rat(1, 4), Rat(1, 2), One}
ShareInputs ==
    {[k \in {"white", "black", "other"} |->
         [count |-> 0, share |-> IF k = "other" THEN Rat(1, 3) ELSE t[k]]] :
        t \in [{"white", "black"} -> ShareValues]}

CallDailyToWeekly ==
    /\ \E pDay \in DailyInputs :
           call' = [op |-> "dailyToWeekly", pDay |-> pDay, result |-> dailyToWeekly(pDay)]
    /\ UNCHANGED <<modeled, population, selection, estimateResult, loading, error, load, anim>>

RenderMainStat ==
    /\ \E estimated \in EstimatedInputs, animatedValue \in AnimatedInputs :
           call' = [op |-> "MainStat", estimated |-> estimated,
                    animatedValue |-> animatedValue,
                    primaryText |-> primaryText(estimated, animatedValue)]
    /\ UNCHANGED <<modeled, population, selection, estimateResult, loading, error, load, anim>>

CallValidateAcsCells ==
    /\ \E acsCells \in BackboneInputs :
           call' = [op |-> "validateAcsCells", acsCells |-> acsCells,
                    result |-> validateAcsCells(acsCells)]
    /\ UNCHANGED <<modeled, population, selection, estimateResult, loading, error, load, anim>>

CallComputeDimensionProbability ==
    /\ \E keys \in KeyInputs, shares \in ShareInputs :
           call' = [op |-> "computeDimensionProbability", keys |-> keys, shares |-> shares,
                    result |-> computeDimensionProbabilityInOrder(keys, shares)]
    /\ UNCHANGED <<modeled, population, selection, estimateResult, loading, error, load, anim>>

\* manifests for traitProduct: the one of the App, one whose entries disagree
\* with the hard-coded list, and none
OtherManifest ==
    [traits |-> <<
        [key |-> "volunteer_work", group |-> "Health", source |-> "BRFSS 2023",
         minAge |-> 18, regionSupport |-> "modeled"],
        [key |-> "reads", group |-> "Hobbies", source |-> "Survey 2022",
         minAge |-> 15, regionSupport |-> "national_only"],
        [key |-> "smokes", group |-> "Time use", source |-> "atus time diary",
         minAge |-> 18, regionSupport |-> "modeled"] >>]
ManifestInputs == {Manifest, OtherManifest, NoManifest}

\* up to two trait keys in either order, and two tables for one cell
TraitKeyInputs ==
    UNION {{keys \in [1..n -> {"smokes", "plays_sports", "volunteer_work", "reads"}] :
               \A i, j \in 1..n : keys[i] = keys[j] => i = j} : n \in 0..2}
TraitCell == <<"south", "female", "18_24">>
TraitTableInputs ==
    {[key \in {"smokes", "plays_sports", "volunteer_work", "reads"} |-> (TraitCell :> t[key])] :
        t \in {[smokes |-> Rat(1, 4), plays_sports |-> Rat(1, 2),
                volunteer_work |-> Rat(3, 4), reads |-> Rat(1, 4)],
               [smokes |-> One, plays_sports |-> Zero,
                volunteer_work |-> Rat(1, 2), reads |-> Rat(1, 2)]}}

CallTraitProduct ==
    /\ \E traitKeys \in TraitKeyInputs, probabilities \in TraitTableInputs,
          manifest \in ManifestInputs :
           call' = [op |-> "traitProduct", traitKeys |-> traitKeys,
                    probabilities |-> probabilities, manifest |-> manifest,
                    result |-> traitProduct(TraitCell, traitKeys, probabilities, manifest)]
    /\ UNCHANGED <<modeled, population, selection, estimateResult, loading, error, load, anim>>

\* Selections the updaters are called on
SelectionInputs ==
    { createBlankSelection,
      [createBlankSelection EXCEPT !.sex = {"female"}],
      [createBlankSelection EXCEPT !.sex = {"female", "male"}, !.ageBand = {"18_24"}],
      [createBlankSelection EXCEPT !.ageBand = {"0_14", "15_17", "18_24"},
                                   !.modeledTraits = <<"smokes">>],
      [createBlankSelection EXCEPT !.ageBand = {"15_17"}, !.region = {"south"},
                                   !.modeledTraits = <<"smokes", "plays_sports">>] }

\* toggleSelection's updater on a Selection object, and on its result with
\* the opposite `checked`
CallToggleSelection ==
    /\ \E sel \in SelectionInputs, dimension \in DOMAIN OptionKeys, checked \in BOOLEAN :
           \E key \in OptionKeys[dimension] :
               LET prev == AllocSelection(sel)
                   next == toggleSelectionUpdater(prev.heap, prev.selection,
                                                  dimension, key, checked)
                   back == toggleSelectionUpdater(next.heap, next.selection,
                                                  dimension, key, ~checked)
               IN  call' = [op |-> "toggleSelection", prev |-> prev, dimension |-> dimension,
                            key |-> key, checked |-> checked, next |-> next, back |-> back]
    /\ UNCHANGED <<modeled, population, selection, estimateResult, loading, error, load, anim>>

\* the minAge values of the traits of the manifests, and 0
MinAgeInputs == {0, 15, 18}

\* setAgeToEligible's updater, and the trait checkboxes before and after it
CallSetAgeToEligible ==
    /\ \E sel \in SelectionInputs, minAge \in MinAgeInputs :
           call' = [op |-> "setAgeToEligible", prev |-> sel, minAge |-> minAge,
                    next |-> AgeSetToEligible(sel, minAge),
                    disabledBefore |-> {i \in DOMAIN Manifest.traits :
                                           isTraitDisabled(sel, Manifest.traits[i])},
                    disabledAfter |-> {i \in DOMAIN Manifest.traits :
                                          isTraitDisabled(AgeSetToEligible(sel, minAge),
                                                          Manifest.traits[i])}]
    /\ UNCHANGED <<modeled, population, selection, estimateResult, loading, error, load, anim>>

HelperNext ==
    \/ CallToggleSelection
    \/ CallSetAgeToEligible
    \/ CallDailyToWeekly
    \/ RenderMainStat
    \/ CallValidateAcsCells
    \/ CallComputeDimensionProbability
    \/ CallTraitProduct

\* the App before its data has loaded: data is null, the Selection blank and
\* the memo returns defaultResult
HelperInit ==
    /\ modeled = Null
    /\ population = Null
    /\ selection = createBlankSelection
    /\ estimateResult = defaultResult
    /\ call = NoCall
    /\ loading = TRUE
    /\ error = Null
    /\ load = LoadDone
    /\ anim = AnimIdle

HelperSpec == HelperInit /\ [][HelperNext]_vars

(***************************************************************************)
(* useAnimatedNumber.  anim holds the hook's state (displayValue), its two  *)
(* refs (startValue, startTime), the target of the last render, the effect *)
(* of that render while React has not run it yet, and the window's list of *)
(* animation frame callbacks in the order they were requested, each with   *)
(* its handle and the target its closure holds.  An animation frame runs   *)
(* the callbacks of the list in order with one timestamp; callbacks        *)
(* requested meanwhile wait for the next frame.                            *)
(***************************************************************************)
DurationMs == 3
FrameGaps == {1, 2}
TargetInputs == {0, 4, 9}
MaxTargetChanges == 2

\* const easeOutQuad = (t) => 1 - (1 - t) * (1 - t)
easeOutQuad(t) == RSub(One, RMul(RSub(One, t), RSub(One, t)))

\* one call of step(timestamp) by the callback holding `target`; run carries
\* startTime.current, the value last passed to setDisplayValue, the
\* callbacks requested during this frame and the next handle
step(run, startValue, target, timestamp) ==
    LET startTime == IF run.startTime = Null THEN Num(timestamp) ELSE run.startTime
        elapsed == RSub(Num(timestamp), startTime)
        progress == clamp(RDiv(elapsed, Num(DurationMs)), Zero, One)
        nextValue == MathRound(RAdd(Num(startValue),
                                    RMul(Num(target - startValue), easeOutQuad(progress))))
        again == RLess(progress, One)
    IN  [startTime |-> startTime,
         displayValue |-> nextValue,
         callbacks |-> IF again
                       THEN Append(run.callbacks, [id |-> run.nextId, target |-> target])
                       ELSE run.callbacks,
         nextId |-> IF again THEN run.nextId + 1 ELSE run.nextId]

\* a frame that runs the callback requested last first
RECURSIVE RunCallbacksNewestFirst(_, _, _, _)
RunCallbacksNewestFirst(callbacks, run, startValue, timestamp) ==
    IF callbacks = <<>> THEN run
    ELSE RunCallbacksNewestFirst(
             SubSeq(callbacks, 1, Len(callbacks) - 1),
             step(run, startValue, callbacks[Len(callbacks)].target, timestamp),
             startValue, timestamp)

\* the window running its list of animation frame callbacks, in the order
\* they were requested
RECURSIVE RunCallbacks(_, _, _, _)
RunCallbacks(callbacks, run, startValue, timestamp) ==
    IF callbacks = <<>> THEN run
    ELSE RunCallbacks(Tail(callbacks),
                      step(run, startValue, Head(callbacks).target, timestamp),
                      startValue, timestamp)

\* the hook after its first render: useState(target), useRef(target),
\* useRef(null), and the effect of the first render still to run
Mounted(target) ==
    [mounted |-> TRUE, target |-> target, displayValue |-> target,
     startValue |-> target, startTime |-> Null,
     effect |-> [target |-> target, displayValue |-> target],
     callbacks |-> <<>>, animationId |-> 0, nextId |-> 1, now |-> 0, changes |-> 0]

AnimInit ==
    /\ modeled = Null
    /\ population = Null
    /\ selection = createBlankSelection
    /\ estimateResult = defaultResult
    /\ call = NoCall
    /\ loading = TRUE
    /\ error = Null
    /\ load = LoadDone
    /\ \E target \in TargetInputs : anim = Mounted(target)

\* a render with another target: the dependency [target, durationMs] changed,
\* so React keeps the effect of this render, whose closure holds the
\* displayValue of this render.  React runs an effect still waiting before
\* it renders again.
Rerender ==
    /\ anim.mounted
    /\ anim.effect = Null
    /\ anim.changes < MaxTargetChanges
    /\ \E target \in TargetInputs \ {anim.target} :
           anim' = [anim EXCEPT !.target = target,
                                !.effect = [target |-> target,
                                            displayValue |-> anim.displayValue],
                                !.changes = @ + 1]
    /\ UNCHANGED <<modeled, population, selection, estimateResult, call, loading, error, load>>

\* React runs the cleanup of the previous effect (cancelAnimationFrame of the
\* handle that effect got, which is the handle of its first request only) and
\* then the effect: the refs are reset and step is requested
RunEffect ==
    /\ anim.mounted
    /\ anim.effect # Null
    /\ anim' = [anim EXCEPT
                   !.startValue = anim.effect.displayValue,
                   !.startTime = Null,
                   !.callbacks = Append(SelectSeq(@, LAMBDA cb : cb.id # anim.animationId),
                                        [id |-> anim.nextId, target |-> anim.effect.target]),
                   !.animationId = anim.nextId,
                   !.nextId = @ + 1,
                   !.effect = Null]
    /\ UNCHANGED <<modeled, population, selection, estimateResult, call, loading, error, load>>

\* the hook after the frame with this timestamp: every callback of the list
\* has run, and the hook renders with the value set last
AfterFrame(hook, timestamp) ==
    LET run == RunCallbacks(hook.callbacks,
                            [startTime |-> hook.startTime,
                             displayValue |-> hook.displayValue,
                             callbacks |-> <<>>, nextId |-> hook.nextId],
                            hook.startValue, timestamp)
    IN  [hook EXCEPT !.now = timestamp,
                     !.startTime = run.startTime,
                     !.displayValue = run.displayValue,
                     !.callbacks = run.callbacks,
                     !.nextId = run.nextId]

\* the targets held by the callbacks of the list, in order
TargetsOf(callbacks) == [i \in DOMAIN callbacks |-> callbacks[i].target]

\* an animation frame, some time after the one before
AnimationFrame ==
    /\ anim.mounted
    /\ anim.callbacks # <<>>
    /\ \E gap \in FrameGaps :
           /\ anim' = AfterFrame(anim, anim.now + gap)
           /\ call' = [op |-> "animationFrame", timestamp |-> anim.now + gap,
                       targets |-> TargetsOf(anim.callbacks)]
    /\ UNCHANGED <<modeled, population, selection, estimateResult, loading, error, load>>

AnimNext == Rerender \/ RunEffect \/ AnimationFrame

AnimSpec == AnimInit /\ [][AnimNext]_vars

\* an animation frame is delivered: a step of AnimationFrame, seen on call alone
FrameDelivered ==
    /\ anim.mounted
    /\ anim.callbacks # <<>>
    /\ \E gap \in FrameGaps :
           call' = [op |-> "animationFrame", timestamp |-> anim.now + gap,
                    targets |-> TargetsOf(anim.callbacks)]

\* React runs the effects of a committed render, and the window delivers an
\* animation frame while callbacks are waiting
AnimFairSpec == AnimSpec /\ WF_vars(RunEffect) /\ WF_call(FrameDelivered)

(***************************************************************************)
(* Properties of the estimate.  estimateResult is the result of            *)
(* estimatePopulation for the current Selection and the loaded data, with  *)
(* error = Null when the call returned.                                    *)
(***************************************************************************)
Returned == estimateResult.error = Null

\* the number of cells of the backbone whose band starts at minAge or above
CellsFrom(minAge) ==
    Cardinality({i \in DOMAIN modeled.acsCells.cells :
                     AGE_BAND_MIN_AGES[modeled.acsCells.cells[i].age_band] >= minAge})

\* C1: for the Selection in which every dimension is empty, estimatePopulation
\* returns, with estimated equal to acsCells.total_pop and probability equal
\* to 1 (the backbone's total_pop being the sum of its cells, as generated).
C1_BlankSelectionIsTotal ==
    selection = createBlankSelection =>
        /\ Returned
        /\ estimateResult.estimated = modeled.acsCells.total_pop
        /\ estimateResult.probability = One

C1_Witness ==
    /\ selection = createBlankSelection
    /\ Returned
    /\ estimateResult.estimated = SumPop(modeled.acsCells.cells, 1)
    /\ estimateResult.estimated > 0

\* C4: whenever estimatePopulation returns, estimated is an integer with
\* 0 <= estimated <= acsCells.total_pop.
C4_EstimatedWithinTotal ==
    Returned => estimateResult.estimated \in 0..modeled.acsCells.total_pop

C4_Witness ==
    /\ Returned
    /\ selection.modeledTraits # <<>>
    /\ selection.region # {}
    /\ 0 < estimateResult.estimated
    /\ estimateResult.estimated < modeled.acsCells.total_pop

\* C5: whenever estimatePopulation returns, probability is a number in [0,1],
\* and it is 0 when denominatorPop is 0.
C5_ProbabilityInUnitInterval ==
    Returned =>
        /\ estimateResult.probability.d > 0
        /\ RLeq(Zero, estimateResult.probability)
        /\ RLeq(estimateResult.probability, One)
        /\ estimateResult.denominatorPop = 0 => estimateResult.probability = Zero

C5_Witness ==
    /\ Returned
    /\ selection.modeledTraits # <<>>
    /\ estimateResult.denominatorPop = 0
    /\ estimateResult.probability = Zero

\* C7: with ageBand = {0_14} and a non-empty employment selection, whatever
\* else is selected, a call that returns returns estimated = 0.
C7_Under15EmploymentIsZero ==
    (selection.ageBand = {"0_14"} /\ selection.employment # {} /\ Returned) =>
        estimateResult.estimated = 0

C7_Witness ==
    /\ selection.ageBand = {"0_14"}
    /\ selection.employment = {"employed"}
    /\ Returned
    /\ estimateResult.matchingCells > 0
    /\ estimateResult.estimated = 0

\* C9: for the blank Selection the universe is 'U.S. population (all ages)'
\* and every cell matches; for the blank Selection with one trait of minAge 18
\* added, a call that returns has universeLabel 'U.S. adults (18+)',
\* effectiveMinAge 18 and as many matching cells as there are cells whose band
\* starts at 18 or above.
C9_AdultTraitNarrowsUniverse ==
    /\ selection = createBlankSelection =>
           /\ estimateResult.universeLabel = "U.S. population (all ages)"
           /\ estimateResult.matchingCells = Len(modeled.acsCells.cells)
    /\ \A i \in DOMAIN modeled.manifest.traits :
           (/\ modeled.manifest.traits[i].minAge = 18
            /\ selection = [createBlankSelection EXCEPT
                                !.modeledTraits = <<modeled.manifest.traits[i].key>>]
            /\ Returned) =>
               /\ estimateResult.universeLabel = "U.S. adults (18+)"
               /\ estimateResult.effectiveMinAge = 18
               /\ estimateResult.matchingCells = CellsFrom(18)

C9_Witness ==
    /\ selection = [createBlankSelection EXCEPT !.modeledTraits = <<"smokes">>]
    /\ Returned
    /\ estimateResult.universeLabel = "U.S. adults (18+)"
    /\ estimateResult.matchingCells = 8
    /\ estimateResult.matchingCells < Len(modeled.acsCells.cells)


\* the estimate of a Selection over the loaded data
EstimateOf(sel) == estimatePopulation(sel, modeled, population)

\* the Selection before its last trait was added
WithoutLastTrait ==
    [selection EXCEPT !.modeledTraits = SubSeq(@, 1, Len(@) - 1)]

\* C2: for a Selection S and a trait t not in it, whenever both calls return,
\* the estimate of S with t added is at most the estimate of S; t may be a
\* diary trait (converted from daily to weekly) or any other.  Stated of the
\* current Selection as S with t added, t its last trait.
C2_TraitNeverIncreases ==
    (selection.modeledTraits # <<>> /\ Returned) =>
        LET before == EstimateOf(WithoutLastTrait)
        IN  ~before.threw => estimateResult.estimated <= before.estimated

C2_Witness ==
    /\ Len(selection.modeledTraits) = 2
    /\ selection.modeledTraits[2] = "plays_sports"
    /\ isAtusOrHobbyTrait("plays_sports", modeled.manifest)
    /\ Returned
    /\ ~EstimateOf(WithoutLastTrait).threw
    /\ 0 < estimateResult.estimated
    /\ estimateResult.estimated < EstimateOf(WithoutLastTrait).estimated

\* C3: for a Selection S with an empty dimension d (any but modeledTraits)
\* and a non-empty set K of keys of d, whenever both calls return, the
\* estimate of S with d := K is at most the estimate of S.  Stated of the
\* current Selection as S with d := K, for each of its non-empty dimensions.
C3_ConstraintNeverIncreases ==
    \A d \in SetDimensions :
        (selection[d] # {} /\ Returned) =>
            LET before == EstimateOf([selection EXCEPT ![d] = {}])
            IN  ~before.threw => estimateResult.estimated <= before.estimated

C3_Witness ==
    /\ selection.transport # {}
    /\ selection.region # {}
    /\ Returned
    /\ 0 < estimateResult.estimated
    /\ estimateResult.estimated < EstimateOf([selection EXCEPT !.transport = {}]).estimated
    /\ estimateResult.estimated < EstimateOf([selection EXCEPT !.region = {}]).estimated

\* the effective minimum age of the selected traits, from the manifest
TraitFloor ==
    LET ages == {modeled.manifest.traits[i].minAge :
                     i \in {j \in DOMAIN modeled.manifest.traits :
                                modeled.manifest.traits[j].key \in Range(selection.modeledTraits)}}
    IN  IF ages = {} THEN 0 ELSE CHOOSE a \in ages : \A b \in ages : b <= a

\* the cell is old enough for every selected trait and matches the region,
\* sex and age band selections
PassesCellFilter(cell) ==
    /\ AGE_BAND_MIN_AGES[cell.age_band] >= TraitFloor
    /\ selection.region = {} \/ cell.region \in selection.region
    /\ selection.sex = {} \/ cell.sex \in selection.sex
    /\ selection.ageBand = {} \/ cell.age_band \in selection.ageBand

\* the pairs of a selected trait and a cell passing the filter for which the
\* trait's table has no entry
MissingEntries ==
    {pair \in Range(selection.modeledTraits)
              \X {modeled.acsCells.cells[i].cell_id : i \in DOMAIN modeled.acsCells.cells} :
        /\ \E i \in DOMAIN modeled.acsCells.cells :
               /\ modeled.acsCells.cells[i].cell_id = pair[2]
               /\ PassesCellFilter(modeled.acsCells.cells[i])
        /\ pair[2] \notin DOMAIN modeled.traitProbabilities[pair[1]]}

\* C6: if a selected trait has no probability entry for a cell that passes the
\* cell filter (and so is age-eligible for it), estimatePopulation throws an
\* error that names such a trait and cell, and no Estimate comes back: the
\* result the App keeps is the default one with the error.
C6_MissingEntryThrows ==
    MissingEntries # {} =>
        /\ ~Returned
        /\ estimateResult.error.text = "Missing probability for trait"
        /\ <<estimateResult.error.trait, estimateResult.error.cell>> \in MissingEntries
        /\ estimateResult = [defaultResult EXCEPT !.error = estimateResult.error]

C6_Witness ==
    /\ MissingEntries # {}
    /\ ~Returned
    /\ estimateResult.error.trait = "smokes"
    /\ estimateResult.error.cell = <<"south", "female", "65_plus">>

\* the share of an employment key
EmploymentShare(key) == population.dimensions.employment[key].share

\* the probability of the union of independent events, by inclusion and
\* exclusion (for at most two keys)
UnionProbability(keys) ==
    IF Cardinality(keys) = 1 THEN EmploymentShare(CHOOSE k \in keys : TRUE)
    ELSE LET k1 == CHOOSE k \in keys : TRUE
             k2 == CHOOSE k \in keys : k # k1
         IN  RSub(RAdd(EmploymentShare(k1), EmploymentShare(k2)),
                  RMul(EmploymentShare(k1), EmploymentShare(k2)))

\* |a - b| <= 1
WithinOne(a, b) == RLeq(RSub(a, b), One) /\ RLeq(RSub(b, a), One)

\* C8: with no modeled traits, one selected age band b of 15_17 or above and a
\* non-empty employment set E, estimated is within 1 (the rounding of the two
\* estimates) of baseline * f * unionProbability(E), where baseline is the
\* estimate with employment emptied, f = 2/3 for 15_17 and f = 1 for a band
\* starting at 18 or above.
C8_EmploymentScalesBaseline ==
    (/\ selection.modeledTraits = <<>>
     /\ Cardinality(selection.ageBand) = 1
     /\ selection.ageBand # {"0_14"}
     /\ selection.employment # {}
     /\ Cardinality(selection.employment) <= 2) =>
        /\ Returned
        /\ WithinOne(Num(estimateResult.estimated),
                     RMul(RMul(Num(EstimateOf([selection EXCEPT !.employment = {}]).estimated),
                               IF selection.ageBand = {"15_17"} THEN Rat(2, 3) ELSE One),
                          UnionProbability(selection.employment)))

C8_Witness ==
    /\ selection.modeledTraits = <<>>
    /\ selection.ageBand = {"15_17"}
    /\ selection.employment = {"employed", "unemployed"}
    /\ Returned
    /\ estimateResult.estimated > 1
    /\ estimateResult.estimated < EstimateOf([selection EXCEPT !.employment = {}]).estimated

\* the selected age bands that start below the effective minimum age
BelowFloor == {b \in selection.ageBand : AGE_BAND_MIN_AGES[b] < TraitFloor}

\* C10: when a selected age band starts below the effective minimum age of
\* the selected traits, its cells are left out without an error, also when the
\* trait tables have no entry for them: an error, if any, names a cell that is
\* old enough; with other bands selected too the result is that of the
\* Selection without the bands below the floor; with every selected band
\* below the floor the call returns estimated 0 and matchingCells 0.
C10_BandsBelowFloorExcluded ==
    BelowFloor # {} =>
        /\ ~Returned => AGE_BAND_MIN_AGES[estimateResult.error.cell[3]] >= TraitFloor
        /\ BelowFloor # selection.ageBand =>
               estimateResult =
                   ComputeEstimateResult([selection EXCEPT !.ageBand = @ \ BelowFloor],
                                         modeled, population)
        /\ BelowFloor = selection.ageBand =>
               /\ Returned
               /\ estimateResult.estimated = 0
               /\ estimateResult.matchingCells = 0

C10_Witness ==
    /\ selection.ageBand = {"0_14"}
    /\ selection.modeledTraits = <<"smokes">>
    /\ <<"south", "male", "0_14">> \notin DOMAIN modeled.traitProbabilities["smokes"]
    /\ Returned
    /\ estimateResult.estimated = 0
    /\ estimateResult.matchingCells = 0

\* the population of the cells that pass the cell filter
MatchingPop == SumPop(SelectSeq(modeled.acsCells.cells, PassesCellFilter), 1)

\* the dimensions that enter the estimate through their category shares
ShareDimensions == {"race", "children", "income", "education", "householdType", "transport"}

\* C11: with an empty employment selection the employment factor of a cell
\* is 1 for every age band, 0_14 and 15_17 included; so with no trait and no
\* share-level selection either (in particular with only the under-18 bands
\* selected) the estimate is the whole population of the matching cells and
\* shareFactor is 1.
C11_NoEmploymentFilterNoEffect ==
    selection.employment = {} =>
        /\ \A band \in AgeBandKey :
               computeCellEmploymentFactor(band, selection, population) = One
        /\ (/\ Returned
            /\ selection.modeledTraits = <<>>
            /\ \A d \in ShareDimensions : selection[d] = {}) =>
               /\ estimateResult.estimated = MatchingPop
               /\ estimateResult.shareFactor = One

C11_Witness ==
    /\ selection = [createBlankSelection EXCEPT !.ageBand = {"0_14", "15_17"}]
    /\ Returned
    /\ estimateResult.matchingCells = 8
    /\ estimateResult.estimated = MatchingPop
    /\ estimateResult.estimated > 0
    /\ estimateResult.shareFactor = One

\* C13: nationalModelSelected is true exactly when a selected trait has
\* regionSupport 'national_only' in the manifest, whatever the region, sex,
\* age band and share-level selections.
C13_NationalModelFlag ==
    Returned =>
        (estimateResult.nationalModelSelected <=>
             \E i \in DOMAIN modeled.manifest.traits :
                 /\ modeled.manifest.traits[i].key \in Range(selection.modeledTraits)
                 /\ modeled.manifest.traits[i].regionSupport = "national_only")

C13_Witness ==
    /\ Returned
    /\ estimateResult.nationalModelSelected
    /\ selection.modeledTraits = <<"smokes", "plays_sports">>
    /\ selection.region # {}

\* C14: matchingCells is the number of cells whose band starts at the
\* effective minimum age or above and that match the region, sex and age band
\* selections (an empty selection matching every cell); the share-level and
\* employment selections have no part in it.
C14_MatchingCellsCount ==
    Returned =>
        estimateResult.matchingCells =
            Cardinality({i \in DOMAIN modeled.acsCells.cells :
                             PassesCellFilter(modeled.acsCells.cells[i])})

C14_Witness ==
    /\ Returned
    /\ selection.sex = {"female"}
    /\ selection.modeledTraits # <<>>
    /\ selection.employment # {}
    /\ estimateResult.matchingCells = 4

\* C15: once the data is loaded, after any sequence of toggleSelection,
\* toggleUnder18, setAgeToEligible and resetFilters the estimate the UI holds
\* is that of estimatePopulation for the current Selection, never that of an
\* earlier one; whenever the Selection is blank (as after resetFilters) the
\* estimate is the total population.
C15_EstimateFollowsSelection ==
    /\ estimateResult = ComputeEstimateResult(selection, modeled, population)
    /\ selection = createBlankSelection =>
           Returned /\ estimateResult.estimated = modeled.acsCells.total_pop

C15_Witness ==
    /\ selection.region = {"south"}
    /\ selection.transport # {}
    /\ Returned
    /\ estimateResult = ComputeEstimateResult(selection, modeled, population)
    /\ estimateResult # ComputeEstimateResult(createBlankSelection, modeled, population)
    /\ estimateResult # ComputeEstimateResult([selection EXCEPT !.transport = {}],
                                              modeled, population)

\* C16: while estimatePopulation throws for the current Selection (a selected
\* trait lacks an entry for a cell that passes the filter) the UI holds
\* estimated 0, probability 0 and the thrown message as its error; for every
\* Selection for which the engine returns, the next one after a throw
\* included, the error is null.
C16_ThrowShowsErrorNotEstimate ==
    /\ MissingEntries # {} =>
           /\ estimateResult.estimated = 0
           /\ estimateResult.probability = Zero
           /\ activeError(Null, estimateResult) # Null
           /\ activeError(Null, estimateResult) \in
                  {MissingProbabilityError(pair[1], pair[2]) : pair \in MissingEntries}
    /\ MissingEntries = {} => activeError(Null, estimateResult) = Null

C16_Witness ==
    /\ MissingEntries # {}
    /\ selection.region = {"south"}
    /\ selection.sex = {"female"}
    /\ estimateResult.estimated = 0
    /\ estimateResult.probability = Zero
    /\ activeError(Null, estimateResult) = MissingProbabilityError("smokes", <<"south", "female", "65_plus">>)

\* the share of a key in a dimension's table, 0 without an entry
ShareIn(d, key) ==
    IF key \in DOMAIN population.dimensions[d] THEN population.dimensions[d][key].share
    ELSE Zero

\* the probability that one of the selected keys of dimension d applies: 1 for
\* no key, else 1 minus the product of the complements (at most two keys)
DimensionUnion(d) ==
    IF selection[d] = {} THEN One
    ELSE IF Cardinality(selection[d]) = 1
    THEN ShareIn(d, CHOOSE k \in selection[d] : TRUE)
    ELSE LET k1 == CHOOSE k \in selection[d] : TRUE
             k2 == CHOOSE k \in selection[d] : k # k1
         IN  RSub(One, RMul(RSub(One, ShareIn(d, k1)), RSub(One, ShareIn(d, k2))))

\* the product of the union probabilities of the six share dimensions
ExpectedBaseShare ==
    RMul(RMul(RMul(DimensionUnion("race"), DimensionUnion("children")),
              RMul(DimensionUnion("income"), DimensionUnion("education"))),
         RMul(DimensionUnion("householdType"), DimensionUnion("transport")))

\* the weekly probability of a trait at a cell: 1 - (1 - p)^7 of the table's
\* daily p for a diary trait, the table's p otherwise
ExpectedTraitProbability(key, cellId) ==
    LET trait == modeled.manifest.traits[
                     CHOOSE i \in DOMAIN modeled.manifest.traits :
                         modeled.manifest.traits[i].key = key]
        p == modeled.traitProbabilities[key][cellId]
    IN  IF trait.group = "Hobbies" \/ SourceIncludesATUS(trait.source)
        THEN RSub(One, RPow(RSub(One, p), 7))
        ELSE p

RECURSIVE ExpectedTraitMultiplier(_, _)
ExpectedTraitMultiplier(cellId, i) ==
    IF i > Len(selection.modeledTraits) THEN One
    ELSE RMul(ExpectedTraitProbability(selection.modeledTraits[i], cellId),
              ExpectedTraitMultiplier(cellId, i + 1))

\* the employment factor of a band: 1 with no employment key selected, else
\* the eligibility of the band (0 below 15, 2/3 for 15_17, 1 from 18 on) times
\* the union probability of the selected employment keys
ExpectedEmploymentFactor(band) ==
    IF selection.employment = {} THEN One
    ELSE IF band = "0_14" THEN Zero
    ELSE IF band = "15_17" THEN RMul(Rat(2, 3), DimensionUnion("employment"))
    ELSE DimensionUnion("employment")

\* the sum of the contributions of the cells from index i on that pass the filter
ExpectedSum(i) ==
    RSum([k \in DOMAIN modeled.acsCells.cells |->
             IF ~PassesCellFilter(modeled.acsCells.cells[k]) THEN Zero
             ELSE RMul(RMul(Num(modeled.acsCells.cells[k].pop),
                            ExpectedTraitMultiplier(modeled.acsCells.cells[k].cell_id, 1)),
                       RMul(ExpectedEmploymentFactor(modeled.acsCells.cells[k].age_band),
                            ExpectedBaseShare))],
         i, Len(modeled.acsCells.cells))

\* C19: whenever estimatePopulation returns, estimated is the rounded sum over
\* the filtered cells of pop * traitMultiplier(cell) *
\* employmentFactor(cell.age_band) * baseShareFactor, where baseShareFactor is
\* the product of the union probabilities of race, children, income,
\* education, householdType and transport (not employment), and the employment
\* factor is applied to each cell inside the sum.
C19_EstimatedIsRoundedCellSum ==
    Returned => estimateResult.estimated = MathRound(ExpectedSum(1))

C19_Witness ==
    /\ Returned
    /\ selection.employment = {"employed"}
    /\ selection.ageBand = {}
    /\ selection.modeledTraits = <<"plays_sports">>
    /\ selection.race = {"white"}
    /\ ExpectedBaseShare = Rat(1, 2)
    /\ estimateResult.estimated = MathRound(ExpectedSum(1))
    /\ estimateResult.estimated > 0

\* x to the seventh power, by squaring
Seventh(x) ==
    LET x2 == RMul(x, x)
        x4 == RMul(x2, x2)
    IN  RMul(RMul(x4, x2), x)

C17_FewerThanThousandText ==
    call.op = "MainStat" =>
        /\ call.primaryText = "Fewer than 1,000" <=>
               (0 < call.estimated /\ call.estimated < 1000)
        /\ (call.estimated = 0 \/ call.estimated >= 1000) =>
               /\ call.primaryText = formatNumber(call.animatedValue)
               /\ call.animatedValue = 0 => call.primaryText = "0"
               /\ call.animatedValue = 1000 => call.primaryText = "1,000"
               /\ call.animatedValue = 1002003 => call.primaryText = "1,002,003"

C17_Witness ==
    /\ call.op = "MainStat"
    /\ call.estimated = 0
    /\ call.animatedValue = 1000
    /\ call.primaryText = "1,000"

\* the sum of the populations of the first n cells
RECURSIVE PopOfFirst(_, _)
PopOfFirst(cells, n) == IF n = 0 THEN 0 ELSE PopOfFirst(cells, n - 1) + cells[n].pop

\* C18: validateAcsCells returns the backbone with total_pop replaced by the
\* sum of the cell populations, cells unchanged, when the two differ by more
\* than 1, and returns it unchanged otherwise; in the result the sum and
\* total_pop differ by at most 1.
C18_ValidateAcsCells ==
    call.op = "validateAcsCells" =>
        LET sum == PopOfFirst(call.acsCells.cells, Len(call.acsCells.cells))
            diff == sum - call.acsCells.total_pop
        IN  /\ (diff > 1 \/ diff < -1) =>
                   call.result = [total_pop |-> sum, cells |-> call.acsCells.cells]
            /\ (diff <= 1 /\ diff >= -1) => call.result = call.acsCells
            /\ sum - call.result.total_pop \in {-1, 0, 1}

C18_Witness ==
    /\ call.op = "validateAcsCells"
    /\ Len(call.acsCells.cells) = 2
    /\ call.acsCells.total_pop = 15
    /\ call.result.total_pop = 13
    /\ call.result.cells = call.acsCells.cells

\* the share table with an entry of share 0 for every key it lacks
WithZeroShares(shares) ==
    [k \in DimensionKeys |-> IF k \in DOMAIN shares THEN shares[k] ELSE [count |-> 0, share |-> Zero]]

\* the product of 1 - share(k) over the first n keys
RECURSIVE ComplementProduct(_, _, _)
ComplementProduct(keys, shares, n) ==
    IF n = 0 THEN One
    ELSE RMul(ComplementProduct(keys, shares, n - 1), RSub(One, shares[keys[n]].share))

\* the orders the keys can be inserted in
Orders(keys) ==
    {order \in [1..Len(keys) -> Range(keys)] : Range(order) = Range(keys)}

\* C20: computeDimensionProbability returns 1 for an empty set and otherwise
\* 1 - prod(1 - share(k)) over the selected keys, a key without an entry
\* counting as share 0; the result does not depend on the order of the keys
\* and lies in [0,1] for shares in [0,1].
C20_DimensionProbability ==
    call.op = "computeDimensionProbability" =>
        /\ call.keys = <<>> => call.result = One
        /\ call.keys # <<>> =>
               call.result = RSub(One, ComplementProduct(call.keys, WithZeroShares(call.shares),
                                                         Len(call.keys)))
        /\ \A order \in Orders(call.keys) :
               computeDimensionProbabilityInOrder(order, call.shares) = call.result
        /\ computeDimensionProbability(Range(call.keys), call.shares) = call.result
        /\ RLeq(Zero, call.result) /\ RLeq(call.result, One)

C20_Witness ==
    /\ call.op = "computeDimensionProbability"
    /\ call.keys = <<"asian", "white", "black">>
    /\ call.shares["white"].share = Rat(1, 4)
    /\ call.shares["black"].share = Rat(1, 2)
    /\ call.result = Rat(5, 8)

\* x clamped to [0,1]
ClampedToUnit(x) == IF RLess(x, Zero) THEN Zero ELSE IF RLess(One, x) THEN One ELSE x

\* C21 as stated: the returned probability equals the returned (rounded)
\* estimated count divided by denominatorPop, clamped to [0,1].
C21_ProbabilityFromRoundedCount ==
    (Returned /\ estimateResult.denominatorPop # 0) =>
        estimateResult.probability =
            ClampedToUnit(Rat(estimateResult.estimated, estimateResult.denominatorPop))

\* C21, amended: the returned probability equals the unrounded sum of the cell
\* contributions divided by denominatorPop, clamped to [0,1], and 0 when
\* denominatorPop is 0; the returned count is that sum rounded, so probability
\* times denominatorPop is within 1/2 of the returned count.
C21_ProbabilityFromUnroundedSum ==
    Returned =>
        LET sum == ExpectedSum(1)
            denominatorPop == estimateResult.denominatorPop
            scaled == RMul(estimateResult.probability, Num(denominatorPop))
        IN  /\ denominatorPop = 0 => estimateResult.probability = Zero
            /\ denominatorPop # 0 =>
                   /\ estimateResult.probability =
                          ClampedToUnit(RMul(sum, Rat(1, denominatorPop)))
                   /\ RLeq(RSub(scaled, Rat(1, 2)), Num(estimateResult.estimated))
                   /\ RLeq(Num(estimateResult.estimated), RAdd(scaled, Rat(1, 2)))

C21_Witness ==
    /\ Returned
    /\ selection.race = {"white"}
    /\ selection.region = {"south"}
    /\ estimateResult.denominatorPop > 0
    /\ ExpectedSum(1).d > 1
    /\ estimateResult.probability = RMul(ExpectedSum(1), Rat(1, estimateResult.denominatorPop))
    /\ estimateResult.probability # Rat(estimateResult.estimated, estimateResult.denominatorPop)

\* the step adds one trait to the Selection and changes nothing else
AddsTrait ==
    \E key \in OptionKeys.modeledTraits :
        /\ key \notin Range(selection.modeledTraits)
        /\ selection' = [selection EXCEPT !.modeledTraits = Append(@, key)]

\* C23: whenever estimatePopulation returns, effectiveMinAge is the maximum
\* minAge over the selected traits, and 0 with no trait selected; a step that
\* adds a trait to the Selection, both calls returning, never lowers
\* effectiveMinAge and never raises denominatorPop or matchingCells.
C23_EffectiveMinAgeIsMax ==
    /\ [](Returned => estimateResult.effectiveMinAge = TraitFloor)
    /\ [][(AddsTrait /\ Returned /\ Returned') =>
              /\ estimateResult'.effectiveMinAge >= estimateResult.effectiveMinAge
              /\ estimateResult'.denominatorPop <= estimateResult.denominatorPop
              /\ estimateResult'.matchingCells <= estimateResult.matchingCells]_vars

C23_Witness ==
    /\ selection.modeledTraits = <<"plays_sports", "smokes">>
    /\ Returned
    /\ estimateResult.effectiveMinAge = 18
    /\ estimateResult.denominatorPop < modeled.acsCells.total_pop
    /\ estimateResult.denominatorPop <
           EstimateOf([selection EXCEPT !.modeledTraits = <<"plays_sports">>]).denominatorPop
    /\ estimateResult.matchingCells <
           EstimateOf([selection EXCEPT !.modeledTraits = <<"plays_sports">>]).matchingCells

\* whether the trait is diary-based: by its manifest entry when a manifest is
\* given and has one, by the hard-coded key list otherwise
DiaryBased(key, manifest) ==
    IF "traits" \in DOMAIN manifest /\ \E i \in DOMAIN manifest.traits : manifest.traits[i].key = key
    THEN \E i \in DOMAIN manifest.traits :
             /\ manifest.traits[i].key = key
             /\ \/ manifest.traits[i].group = "Hobbies"
                \/ manifest.traits[i].source \in {"ATUS 2023", "atus time diary"}
    ELSE key \in {"high_childcare_time", "has_pet_proxy", "plays_sports",
                  "spiritual_activities", "volunteer_work"}

\* the factor a key contributes at the cell of the call
ExpectedFactor(key) ==
    LET p == call.probabilities[key][TraitCell]
    IN  IF DiaryBased(key, call.manifest) THEN RSub(One, Seventh(RSub(One, p))) ELSE p

\* C24: traitProduct multiplies, for each selected trait, the cell probability
\* passed through dailyToWeekly exactly when the trait is diary-based (manifest
\* entry with group 'Hobbies' or a source containing 'ATUS'; the hard-coded
\* key list only without a manifest or without an entry for the trait), and
\* unchanged otherwise; with no trait the multiplier is 1.
C24_DiaryTraitsConverted ==
    call.op = "traitProduct" =>
        /\ ~call.result.threw
        /\ Len(call.traitKeys) = 0 => call.result.value = One
        /\ Len(call.traitKeys) = 1 => call.result.value = ExpectedFactor(call.traitKeys[1])
        /\ Len(call.traitKeys) = 2 =>
               call.result.value = RMul(ExpectedFactor(call.traitKeys[1]),
                                        ExpectedFactor(call.traitKeys[2]))
        /\ (call.manifest = OtherManifest /\ call.traitKeys = <<"volunteer_work">>) =>
               call.result.value = call.probabilities["volunteer_work"][TraitCell]
        /\ (call.manifest = NoManifest /\ call.traitKeys = <<"volunteer_work">>) =>
               call.result.value =
                   RSub(One, Seventh(RSub(One, call.probabilities["volunteer_work"][TraitCell])))

C24_Witness ==
    /\ call.op = "traitProduct"
    /\ call.manifest = OtherManifest
    /\ call.traitKeys = <<"volunteer_work", "reads">>
    /\ call.probabilities["reads"][TraitCell] = Rat(1, 2)
    /\ call.probabilities["volunteer_work"][TraitCell] = Rat(1, 2)
    /\ call.result.value = Rat(127, 256)

\* the data has loaded
Loaded == modeled # Null

\* the sum of pop over the first n cells whose band starts at minAge or above
RECURSIVE PopFrom(_, _, _)
PopFrom(cells, minAge, n) ==
    IF n = 0 THEN 0
    ELSE PopFrom(cells, minAge, n - 1) +
         (IF AGE_BAND_MIN_AGES[cells[n].age_band] >= minAge THEN cells[n].pop ELSE 0)

\* the sum of pop over all cells old enough for the effective minimum age
EligiblePop ==
    PopFrom(modeled.acsCells.cells, estimateResult.effectiveMinAge,
            Len(modeled.acsCells.cells))

SettledWithAllFiles ==
    /\ load.pc = "done"
    /\ "files" \in DOMAIN load
    /\ load.files.population.ok /\ load.files.acsCells.ok /\ load.files.manifest.ok
    /\ \A key \in DOMAIN load.files.traits : load.files.traits[key].ok

\* the cells of the fetched backbone that are age-eligible for the trait in
\* the engine's sense
AgeEligibleCells(trait) ==
    {id \in CellIds(load.files.acsCells.body) : AGE_BAND_MIN_AGES[id[3]] >= trait.minAge}

\* the cells the fetched table of the trait has an entry for
TableCells(trait) == DOMAIN load.files.traits[trait.key].body.prob_by_cell

\* C25 as stated: the cells loadAppData requires an entry for are, for each
\* manifest trait, exactly its age-eligible cells; so, every file fetched,
\* the load succeeds if and only if every trait's table has an entry for
\* every cell that is age-eligible for the trait.
C25_LoaderRequiresEligibleCells ==
    SettledWithAllFiles =>
        (Loaded <=> \A i \in DOMAIN Manifest.traits :
                        AgeEligibleCells(Manifest.traits[i]) \subseteq TableCells(Manifest.traits[i]))

\* C25, what the loader does: every file fetched, the load succeeds if and
\* only if every trait's table has an entry for every cell of the backbone,
\* whatever the trait's minAge; a failed load reports the missing cells.
C25_LoaderRequiresEveryCell ==
    SettledWithAllFiles =>
        /\ Loaded <=> \A i \in DOMAIN Manifest.traits :
                          CellIds(load.files.acsCells.body) \subseteq TableCells(Manifest.traits[i])
        /\ ~Loaded => /\ error # Null
                      /\ error.message = "Trait is missing probabilities for cells"
                      /\ error.cells =
                             CellIds(load.files.acsCells.body) \
                                 DOMAIN load.files.traits[error.trait].body.prob_by_cell

C25_Witness ==
    /\ SettledWithAllFiles
    /\ TableCells(Manifest.traits[1]) = AgeEligibleCells(Manifest.traits[1])
    /\ TableCells(Manifest.traits[2]) = CellIds(load.files.acsCells.body)
    /\ ~Loaded
    /\ ~loading
    /\ error = MissingCellsError("smokes",
                   {id \in CellIds(load.files.acsCells.body) : id[3] \in {"0_14", "15_17"}})

\* C26: once loadAppData has succeeded, estimatePopulation returns for every
\* Selection (its traits being keys of the loaded manifest): no selected trait
\* lacks an entry for a cell that passes the filter, every such cell being one
\* the loader checked the trait's table against.
C26_LoadedDataNeverThrows ==
    Loaded =>
        /\ Returned
        /\ MissingEntries = {}
        /\ \A i \in DOMAIN modeled.manifest.traits :
               modeled.manifest.traits[i].key \in Range(selection.modeledTraits) =>
                   \A j \in DOMAIN modeled.acsCells.cells :
                       PassesCellFilter(modeled.acsCells.cells[j]) =>
                           /\ modeled.acsCells.cells[j].cell_id \in
                                  eligibleCellIds(modeled.manifest.traits[i], modeled.acsCells)
                           /\ modeled.acsCells.cells[j].cell_id \in
                                  DOMAIN modeled.traitProbabilities[modeled.manifest.traits[i].key]

C26_Witness ==
    /\ Loaded
    /\ selection.modeledTraits = <<"plays_sports", "smokes">>
    /\ selection.sex = {"female"}
    /\ Returned
    /\ estimateResult.matchingCells = 4
    /\ estimateResult.estimated > 0

\* some fetch or some trait validation fails for the files on the server
LoadFails ==
    \/ ~load.files.population.ok \/ ~load.files.acsCells.ok \/ ~load.files.manifest.ok
    \/ \E key \in DOMAIN load.files.traits :
           \/ ~load.files.traits[key].ok
           \/ CellIds(load.files.acsCells.body) \ DOMAIN load.files.traits[key].body.prob_by_cell # {}

\* C29: the data load always finishes: loading eventually becomes false and
\* stays false, and while it is false exactly one of data and the load error
\* is non-null: data set and error null when every fetch and every trait
\* validation succeeds, the error message set and data null when one fails.
C29_LoadAlwaysFinishes ==
    /\ <>[](loading = FALSE)
    /\ [](loading = FALSE =>
              /\ (modeled # Null) # (error # Null)
              /\ (modeled # Null) <=> (population # Null)
              /\ LoadFails => (modeled = Null /\ error # Null)
              /\ ~LoadFails => (modeled # Null /\ error = Null))
    /\ [][loading = FALSE => (loading' = FALSE /\ error' = error
                                /\ modeled' = modeled /\ population' = population)]_vars

C29_Witness ==
    /\ loading = FALSE
    /\ modeled = Null
    /\ load.files.population.ok /\ load.files.acsCells.ok /\ ~load.files.manifest.ok
    /\ error = [message |-> FetchMessages.manifest]

\* the keys of a dimension, as a set
MembersOf(keys, dimension) == IF dimension = "modeledTraits" THEN Range(keys) ELSE keys

\* C27: toggleSelection(dimension, key, checked) gives a new Selection whose
\* set of that dimension is a Set of its own holding the previous keys with
\* key added (checked) or removed (unchecked); every other dimension keeps the
\* Set it had; no Set of the previous Selection is changed; and toggling on a
\* key that was off and then toggling it off restores the previous membership.
C27_ToggleSelection ==
    call.op = "toggleSelection" =>
        LET heap == call.prev.heap
            prev == call.prev.selection
            before == Deref(heap, prev)
            after == Deref(call.next.heap, call.next.selection)
            members == MembersOf(before[call.dimension], call.dimension)
        IN  /\ MembersOf(after[call.dimension], call.dimension) =
                   IF call.checked THEN members \cup {call.key} ELSE members \ {call.key}
            /\ after = Toggled(before, call.dimension, call.key, call.checked)
            /\ \A dimension \in DOMAIN prev \ {call.dimension} :
                   /\ call.next.selection[dimension] = prev[dimension]
                   /\ after[dimension] = before[dimension]
            /\ call.next.selection[call.dimension] \notin DOMAIN heap
            /\ \A a \in DOMAIN heap : call.next.heap[a] = heap[a]
            /\ Deref(call.next.heap, prev) = before
            /\ (call.checked /\ call.key \notin members) =>
                   /\ Deref(call.back.heap, call.back.selection) = before
                   /\ Deref(call.back.heap, call.next.selection) = after

C27_Witness ==
    /\ call.op = "toggleSelection"
    /\ call.dimension = "modeledTraits" /\ call.key = "plays_sports" /\ call.checked
    /\ Deref(call.prev.heap, call.prev.selection).modeledTraits = <<"smokes">>
    /\ Deref(call.next.heap, call.next.selection).modeledTraits = <<"smokes", "plays_sports">>
    /\ Deref(call.back.heap, call.back.selection).modeledTraits = <<"smokes">>
    /\ Len(call.back.heap) = Len(call.prev.heap) + 2

\* what the claim calls disabled: some selected band starts below the minimum age
BandBelow(sel, minAge) ==
    sel.ageBand # {} /\ \E band \in sel.ageBand : AGE_BAND_MIN_AGES[band] < minAge

\* C28: a trait's checkbox is disabled exactly when the age-band selection is
\* non-empty and holds a band whose minimum age is below the trait's minAge;
\* after setAgeToEligible(minAge) the ageBand set is exactly the bands with
\* minimum age >= minAge, every other dimension is unchanged, and no trait
\* with that minAge is disabled.
C28_DisabledTraitsAndSetAgeToEligible ==
    call.op = "setAgeToEligible" =>
        /\ \A i \in DOMAIN Manifest.traits :
               /\ i \in call.disabledBefore <=> BandBelow(call.prev, Manifest.traits[i].minAge)
               /\ i \in call.disabledAfter <=> BandBelow(call.next, Manifest.traits[i].minAge)
               /\ Manifest.traits[i].minAge = call.minAge => i \notin call.disabledAfter
        /\ call.next.ageBand = {band \in AgeBandKey : AGE_BAND_MIN_AGES[band] >= call.minAge}
        /\ \A dimension \in DOMAIN call.prev \ {"ageBand"} :
               call.next[dimension] = call.prev[dimension]

C28_Witness ==
    /\ call.op = "setAgeToEligible"
    /\ call.minAge = 18
    /\ call.prev.ageBand = {"0_14", "15_17", "18_24"}
    /\ call.disabledBefore = {1, 2}
    /\ call.disabledAfter = {}
    /\ call.next.ageBand = {"18_24", "25_34", "35_44", "45_54", "55_64", "65_plus"}
    /\ call.next.modeledTraits = <<"smokes">>

\* no effect waits to run and no animation frame callback waits
AnimationIdle == anim.effect = Null /\ anim.callbacks = <<>>

\* C30: useAnimatedNumber, with animation frames delivered fairly: after the
\* target last changes the displayed value eventually equals the target
\* exactly and stays equal, also when the target changed while callbacks of an
\* earlier animation were still waiting and ran in the same frames as those
\* of the new one; once nothing waits, the value is the target.
C30_DisplayReachesTarget ==
    /\ <>[](anim.displayValue = anim.target /\ AnimationIdle)
    /\ [](AnimationIdle => anim.displayValue = anim.target)

\* the last frame ran a callback of an earlier animation and then the callback
\* of the latest one, and the value ended at the latest target
C30_Witness ==
    /\ AnimationIdle
    /\ anim.changes = MaxTargetChanges
    /\ call.op = "animationFrame"
    /\ Len(call.targets) >= 2
    /\ call.targets[1] # anim.target
    /\ call.targets[Len(call.targets)] = anim.target
    /\ anim.displayValue = anim.target

====
